---- MODULE Spec2Model ----
(***************************************************************************)
(* UK retirement planner: the accumulation simulator                       *)
(* (src/src/utils/projections.ts), the retirement simulator with its       *)
(* withdrawal optimizer (src/src/utils/withdrawals.ts), the tax functions  *)
(* (src/src/utils/taxes.ts), the profile conversions                       *)
(* (src/src/types/index.ts) and the summary figures                        *)
(* (src/src/components/SummaryCards.tsx).                                  *)
(*                                                                         *)
(* Spec      one projection: accumulation, then retirement                 *)
(* SpecAccum the accumulation phase alone, over more ages                  *)
(* SpecRuns  projections run one after another while the clock goes on     *)
(* SpecFn    calls of the exported pure functions                          *)
(* SpecSummary  one projection, then the summary cards rendered from it    *)
(*                                                                         *)
(* Money is a JavaScript number in the source.  Here every amount is an    *)
(* integer count of ticks, Scale ticks to the pound, and every rate is a   *)
(* count of halves (1 is 50%).  The input sets below are chosen so that    *)
(* every product and quotient the code computes is a whole number of       *)
(* ticks: the arithmetic of the model is the exact real arithmetic of the  *)
(* code (IEEE rounding error is not modelled).                             *)
(* A tax is an amount times a rate in percent: whole ticks and hundredths  *)
(* of a tick, again exactly.                                               *)
(***************************************************************************)
EXTENDS Integers, Sequences, FiniteSets, TLC

(***************************************************************************)
(* Bounds of the model                                                     *)
(***************************************************************************)
\* largest retirementAge - currentAge of a person
MaxAccumYears == 1
\* largest lifeExpectancy - retirementAge of a person
MaxRetireYears == 2

(***************************************************************************)
(* Number representation                                                   *)
(***************************************************************************)
RECURSIVE IntPow(_, _)
IntPow(b, n) == IF n <= 0 THEN 1 ELSE b * IntPow(b, n - 1)

\* ticks per pound: enough binary places for the 25% lump sum, the 50% cost
\* basis, the safe-withdrawal rate and one retirement return per year
Scale == IntPow(2, MaxRetireYears + 4)

GBP(n) == n * Scale

Min(a, b) == IF a <= b THEN a ELSE b
Max(a, b) == IF a >= b THEN a ELSE b
Min3(a, b, c) == Min(a, Min(b, c))

RECURSIVE GCD(_, _)
GCD(a, b) == IF b = 0 THEN a ELSE GCD(b, a % b)

\* a rational number n/d in lowest terms, d > 0
Frac(n, d) == LET g == GCD(IF n < 0 THEN 0 - n ELSE n, d)
              IN  IF g = 0 THEN [n |-> 0, d |-> 1] ELSE [n |-> n \div g, d |-> d \div g]

One == [n |-> 1, d |-> 1]

FracMul(p, q) == Frac(p.n * q.n, p.d * q.d)

\* a rate given in halves
Rate(rate) == Frac(rate, 2)

\* 1 + rate
OnePlus(rate) == Frac(2 + rate, 2)

\* Math.pow(base, n) for a rational base and an integer n >= 0
RECURSIVE MathPow(_, _)
MathPow(base, n) == IF n <= 0 THEN One ELSE FracMul(base, MathPow(base, n - 1))

\* a * b / c, cancelling common factors before multiplying
MulDiv(a, b, c) ==
  LET g1 == GCD(a, c)
      a1 == IF g1 = 0 THEN 0 ELSE a \div g1
      c1 == IF g1 = 0 THEN 1 ELSE c \div g1
      g2 == GCD(b, c1)
      b1 == IF g2 = 0 THEN 0 ELSE b \div g2
      c2 == IF g2 = 0 THEN 1 ELSE c1 \div g2
  IN  (a1 * b1) \div c2

\* x * q for an amount x and a rational q
Times(x, q) == MulDiv(x, q.n, q.d)

\* Math.round of an amount: the nearest whole pound, halves rounded up
MathRound(x) == ((2 * x + Scale) \div (2 * Scale)) * Scale

\* JavaScript Infinity: larger than every amount, absorbing under subtraction
Infinity == 2147483647

Minus(a, b) == IF a = Infinity THEN Infinity ELSE a - b

\* JavaScript null (portfolioDepletionAge, targetRetirementIncome)
Null == -1

(***************************************************************************)
(* Program constants (src/src/utils/constants.ts)                          *)
(***************************************************************************)
\* rates of the tax bands are in percent
UK_TAX_BANDS ==
  << [min |-> GBP(0),      max |-> GBP(12570),  rate |-> 0,  name |-> "Personal Allowance"],
     [min |-> GBP(12570),  max |-> GBP(50270),  rate |-> 20, name |-> "Basic Rate"],
     [min |-> GBP(50270),  max |-> GBP(125140), rate |-> 40, name |-> "Higher Rate"],
     [min |-> GBP(125140), max |-> Infinity,    rate |-> 45, name |-> "Additional Rate"] >>

SCOTTISH_TAX_BANDS ==
  << [min |-> GBP(0),      max |-> GBP(12570),  rate |-> 0,  name |-> "Personal Allowance"],
     [min |-> GBP(12570),  max |-> GBP(14876),  rate |-> 19, name |-> "Starter Rate"],
     [min |-> GBP(14876),  max |-> GBP(26561),  rate |-> 20, name |-> "Basic Rate"],
     [min |-> GBP(26561),  max |-> GBP(43662),  rate |-> 21, name |-> "Intermediate Rate"],
     [min |-> GBP(43662),  max |-> GBP(75000),  rate |-> 42, name |-> "Higher Rate"],
     [min |-> GBP(75000),  max |-> GBP(125140), rate |-> 45, name |-> "Advanced Rate"],
     [min |-> GBP(125140), max |-> Infinity,    rate |-> 48, name |-> "Top Rate"] >>

LISA_BONUS_RATE == Frac(1, 4)
LISA_MAX_AGE == 50
TAX_FREE_LUMP_SUM_RATE == Frac(1, 4)

TaxBracketTarget == {"personal_allowance", "basic_rate", "higher_rate", "no_limit"}

TAX_BRACKET_THRESHOLDS ==
  [t \in TaxBracketTarget |->
     CASE t = "personal_allowance" -> [uk |-> GBP(12570),  scottish |-> GBP(12570)]
       [] t = "basic_rate"         -> [uk |-> GBP(50270),  scottish |-> GBP(43662)]
       [] t = "higher_rate"        -> [uk |-> GBP(125140), scottish |-> GBP(125140)]
       [] t = "no_limit"           -> [uk |-> Infinity,    scottish |-> Infinity]]

PERSONAL_ALLOWANCE == GBP(12570)
PERSONAL_ALLOWANCE_TAPER_THRESHOLD == GBP(100000)

CGT_ANNUAL_EXEMPT_AMOUNT == GBP(3000)
\* capital gains rates are in percent
CGT_BASIC_RATE == 10
CGT_HIGHER_RATE == 20
\* variant: the half is not rounded down to a whole pound
MathFloorHalf_NotFloored(x) == x \div 2

\* Math.floor(x / 2) of an amount: whole pounds
MathFloorHalf(x) == (x \div (2 * Scale)) * Scale

\* Get effective personal allowance (tapers above 100k)
getEffectivePersonalAllowance(income) ==
  IF income <= PERSONAL_ALLOWANCE_TAPER_THRESHOLD THEN PERSONAL_ALLOWANCE
  ELSE Max(0, PERSONAL_ALLOWANCE
                - MathFloorHalf(income - PERSONAL_ALLOWANCE_TAPER_THRESHOLD))

\* new Date().getFullYear()
CurrentYear == 2026

(***************************************************************************)
(* Types (src/src/types/index.ts)                                          *)
(***************************************************************************)
AccountType == {"workplace_pension", "sipp", "isa", "lisa", "gia"}

getTaxTreatment(type) ==
  CASE type \in {"workplace_pension", "sipp"} -> "pension"
    [] type = "isa"  -> "isa"
    [] type = "lisa" -> "lisa"
    [] type = "gia"  -> "taxable"

\* an absent optional field (household.person2, account.owner)
Undefined == [undefined |-> TRUE]

PersonId == {"person1", "person2"}

\* a PersonProfile, given by its distances in years
PersonProfile(ca, n, l, ppa, spa, scot, tbt) ==
  [currentAge        |-> ca,
   retirementAge     |-> ca + n,
   lifeExpectancy    |-> ca + n + l,
   privatePensionAge |-> ca + n + ppa,
   statePensionAge   |-> ca + n + spa,
   isScottish        |-> scot,
   taxBracketTarget  |-> tbt]

\* a PersonProfile with its display name
Named(name, person) ==
  [name              |-> name,
   currentAge        |-> person.currentAge,
   retirementAge     |-> person.retirementAge,
   lifeExpectancy    |-> person.lifeExpectancy,
   privatePensionAge |-> person.privatePensionAge,
   statePensionAge   |-> person.statePensionAge,
   isScottish        |-> person.isScottish,
   taxBracketTarget  |-> person.taxBracketTarget]

\* Convert legacy Profile to HouseholdProfile
profileToHousehold(profile) ==
  [mode    |-> "single",
   person1 |-> [name              |-> "Person 1",
                currentAge        |-> profile.currentAge,
                retirementAge     |-> profile.retirementAge,
                lifeExpectancy    |-> profile.lifeExpectancy,
                privatePensionAge |-> profile.privatePensionAge,
                statePensionAge   |-> profile.statePensionAge,
                isScottish        |-> profile.isScottish,
                taxBracketTarget  |-> profile.taxBracketTarget],
   person2 |-> Undefined,
   statePensionAmount |-> profile.statePensionAmount]
\* variant: the state pension of the household is not carried over
householdToProfile_WithoutStatePension(hh) ==
  [currentAge         |-> hh.person1.currentAge,
   retirementAge      |-> hh.person1.retirementAge,
   lifeExpectancy     |-> hh.person1.lifeExpectancy,
   privatePensionAge  |-> hh.person1.privatePensionAge,
   statePensionAge    |-> hh.person1.statePensionAge,
   statePensionAmount |-> 0,
   isScottish         |-> hh.person1.isScottish,
   taxBracketTarget   |-> hh.person1.taxBracketTarget]

\* Convert HouseholdProfile to legacy Profile (uses person1 for single mode)
householdToProfile(hh) ==
  [currentAge         |-> hh.person1.currentAge,
   retirementAge      |-> hh.person1.retirementAge,
   lifeExpectancy     |-> hh.person1.lifeExpectancy,
   privatePensionAge  |-> hh.person1.privatePensionAge,
   statePensionAge    |-> hh.person1.statePensionAge,
   statePensionAmount |-> hh.statePensionAmount,
   isScottish         |-> hh.person1.isScottish,
   taxBracketTarget   |-> hh.person1.taxBracketTarget]

Account(id, type, owner, balance, contribution, growth, return) ==
  [id |-> id, type |-> type, owner |-> owner,
   balance |-> balance, annualContribution |-> contribution,
   contributionGrowthRate |-> growth, expectedReturn |-> return,
   employerContribution |-> IF type = "workplace_pension" THEN 5 ELSE 0,
   salaryForMatch |-> IF type = "workplace_pension" THEN GBP(40000) ELSE 0]

(***************************************************************************)
(* State                                                                   *)
(***************************************************************************)
VARIABLES
  accounts,        \* input: the sequence of Account records
  household,       \* input: the HouseholdProfile
  assumptions,     \* input: the Assumptions
  pc,              \* "accumulation" | "withdrawals" | "single" | "couple" | "done"
  yearIndex,       \* the loop counter of the running simulation loop
  accBalances,     \* calculateAccumulation: balances, by account index
  accumulation,    \* the AccumulationResult under construction
  balances,        \* AccountBalances of person1 and person2
  lumpSumRemaining,\* taxFreeLumpSumRemaining of person1 and person2
  lumpSumAtStart,  \* the lump-sum allowance set when the withdrawals start
  baseWithdrawalTarget,
  retirement,      \* the RetirementResult under construction
  locals,          \* per simulated retirement year, the values of the loop body's
                   \* locals: the year's figures and the withdrawal call
  accLocals,       \* per accumulation year and account, the values of the
                   \* forEach body's locals
  now,             \* the calendar year of the system clock (new Date())
  history,         \* the inputs and results of the projections already returned
  calls            \* the calls of the exported pure functions: arguments and result

vars == << accounts, household, assumptions, pc, yearIndex, accBalances,
           accumulation, balances, lumpSumRemaining, lumpSumAtStart,
           baseWithdrawalTarget, retirement, locals, accLocals, now, history,
           calls >>

inputs == << accounts, household, assumptions >>

\* what a projection neither reads into its state nor writes
ambient == << now, history, calls >>

RECURSIVE SumTo(_, _)
\* f[1] + ... + f[n]
SumTo(f, n) == IF n = 0 THEN 0 ELSE f[n] + SumTo(f, n - 1)

Last(seq) == seq[Len(seq)]

(***************************************************************************)
(* Accumulation simulator (src/src/utils/projections.ts)                   *)
(***************************************************************************)
calculateEmployerContribution(account) ==
  IF account.type # "workplace_pension" THEN 0
  ELSE IF account.employerContribution = 0 \/ account.salaryForMatch = 0 THEN 0
  ELSE MulDiv(account.salaryForMatch, account.employerContribution, 100)

calculateLISABonus(account, ownerAge) ==
  IF account.type # "lisa" THEN 0
  ELSE IF ownerAge >= LISA_MAX_AGE THEN 0
  ELSE Times(account.annualContribution, LISA_BONUS_RATE)

\* household.person2?.f ?? household.person1.f
Person2Or1(hh, f) ==
  IF hh.person2 # Undefined THEN hh.person2[f] ELSE hh.person1[f]

\* variant: in couple mode only an account that names person1 is person1's
IsPerson1Account_OwnerRequired(account, hh) ==
  hh.mode = "single" \/ account.owner = "person1"

IsPerson1Account(account, hh) ==
  hh.mode = "single" \/ account.owner = "undefined" \/ account.owner = "person1"

getOwnerAge(account, yi, hh) ==
  IF IsPerson1Account(account, hh)
  THEN hh.person1.currentAge + yi
  ELSE Person2Or1(hh, "currentAge") + yi

\* variant: every account follows person 1's working years
isOwnerWorking_Person1(account, yi, hh) ==
  hh.person1.currentAge + yi < hh.person1.retirementAge

isOwnerWorking(account, yi, hh) ==
  LET ownerAge == getOwnerAge(account, yi, hh)
  IN  IF IsPerson1Account(account, hh)
      THEN ownerAge < hh.person1.retirementAge
      ELSE ownerAge < Person2Or1(hh, "retirementAge")

\* balances[account.id] * account.expectedReturn
AccountReturns(account, bal) == Times(bal, Rate(account.expectedReturn))

\* the locals of the forEach body for one account in one year
ContributionParts(account, yi, hh, growthFactor) ==
  [ownerAge        |-> getOwnerAge(account, yi, hh),
   working         |-> isOwnerWorking(account, yi, hh),
   contribution    |-> Times(account.annualContribution, growthFactor),
   employerContrib |-> Times(calculateEmployerContribution(account), growthFactor),
   lisaBonus       |-> calculateLISABonus(account, getOwnerAge(account, yi, hh))]

\* const totalContrib = contribution + employerContrib + lisaBonus
totalContrib(parts) ==
  IF parts.working
  THEN parts.contribution + parts.employerContrib + parts.lisaBonus
  ELSE 0

\* the contribution added to one account in one year
AccountContribution(account, yi, hh) ==
  totalContrib(ContributionParts(account, yi, hh,
                 MathPow(OnePlus(account.contributionGrowthRate), yi)))

\* what one iteration of the forEach body did to one account
AccountYear(account, yi, hh, bal) ==
  [type     |-> account.type,
   before   |-> bal,
   returns  |-> AccountReturns(account, bal),
   parts    |-> ContributionParts(account, yi, hh,
                  MathPow(OnePlus(account.contributionGrowthRate), yi)),
   added    |-> AccountContribution(account, yi, hh),
   after    |-> bal + AccountReturns(account, bal)
                    + AccountContribution(account, yi, hh)]

effectiveCurrentAge(hh) ==
  LET person1CurrentAge == hh.person1.currentAge
      person2CurrentAge == IF hh.person2 # Undefined THEN hh.person2.currentAge ELSE 0
      oldestCurrentAge  == IF hh.mode = "couple"
                           THEN Max(person1CurrentAge, person2CurrentAge)
                           ELSE person1CurrentAge
  IN  IF hh.mode = "single" THEN person1CurrentAge ELSE oldestCurrentAge

effectiveRetirementAge(hh) ==
  LET person1RetirementAge == hh.person1.retirementAge
      person2RetirementAge == IF hh.person2 # Undefined THEN hh.person2.retirementAge ELSE 0
      latestRetirementAge  == Max(person1RetirementAge, person2RetirementAge)
  IN  IF hh.mode = "single" THEN person1RetirementAge ELSE latestRetirementAge

\* the sum of the balances of the accounts of one tax treatment
TreatmentBalance(bals, treatment) ==
  SumTo([i \in 1..Len(accounts) |->
           IF getTaxTreatment(accounts[i].type) = treatment THEN bals[i] ELSE 0],
        Len(accounts))

\* one iteration of the year loop of calculateAccumulation
AccumulateYear ==
  /\ pc = "accumulation"
  /\ yearIndex <= effectiveRetirementAge(household) - effectiveCurrentAge(household)
  /\ LET ids      == 1..Len(accounts)
         returns  == [i \in ids |-> AccountReturns(accounts[i], accBalances[i])]
         contribs == [i \in ids |-> AccountContribution(accounts[i], yearIndex, household)]
         newBal   == [i \in ids |-> accBalances[i] + returns[i] + contribs[i]]
         yearContributions == SumTo(contribs, Len(accounts))
         yearReturns       == SumTo(returns, Len(accounts))
         pensionBalance == TreatmentBalance(newBal, "pension")
         isaBalance     == TreatmentBalance(newBal, "isa")
         lisaBalance    == TreatmentBalance(newBal, "lisa")
         taxableBalance == TreatmentBalance(newBal, "taxable")
         totalBalance   == pensionBalance + isaBalance + lisaBalance + taxableBalance
         rec == [age            |-> effectiveCurrentAge(household) + yearIndex,
                 year           |-> now + yearIndex,
                 accounts       |-> newBal,
                 totalBalance   |-> totalBalance,
                 pensionBalance |-> pensionBalance,
                 isaBalance     |-> isaBalance,
                 lisaBalance    |-> lisaBalance,
                 taxableBalance |-> taxableBalance,
                 contributions  |-> yearContributions,
                 returns        |-> yearReturns]
     IN  /\ accBalances' = newBal
         /\ accumulation' =
              [accumulation EXCEPT
                 !.years = Append(@, rec),
                 !.totalContributions = @ + yearContributions,
                 !.totalReturns = @ + yearReturns]
  /\ accLocals' = Append(accLocals,
       [i \in 1..Len(accounts) |->
          AccountYear(accounts[i], yearIndex, household, accBalances[i])])
  /\ yearIndex' = yearIndex + 1
  /\ UNCHANGED << inputs, ambient, pc, balances, lumpSumRemaining, lumpSumAtStart,
                  baseWithdrawalTarget, retirement, locals >>

\* the year loop of calculateAccumulation ends and the result is returned
ReturnAccumulation ==
  /\ pc = "accumulation"
  /\ ~(yearIndex <= effectiveRetirementAge(household) - effectiveCurrentAge(household))
  /\ accumulation' =
       [accumulation EXCEPT
          !.finalBalance = IF Len(accumulation.years) > 0
                           THEN Last(accumulation.years).totalBalance ELSE 0]
  /\ pc' = "withdrawals"
  /\ yearIndex' = 0
  /\ UNCHANGED << inputs, ambient, accLocals, accBalances, balances, lumpSumRemaining,
                  lumpSumAtStart, baseWithdrawalTarget, retirement, locals >>

(***************************************************************************)
(* Withdrawal optimizer (src/src/utils/withdrawals.ts)                     *)
(***************************************************************************)
ZeroBalances == [pension |-> 0, isa |-> 0, lisa |-> 0, taxable |-> 0, taxableCostBasis |-> 0]

Total(b) == b.pension + b.isa + b.lisa + b.taxable

\* Step 1: Math.min(remaining, taxFreeLumpSumRemaining, balances.pension)
lumpSumToTake(remaining, taxFreeLumpSumRemaining, pension) ==
  Min3(remaining, taxFreeLumpSumRemaining, pension)

\* Step 2: Math.max(0, maxTaxBracketThreshold - taxableIncomeAlready)
roomInLowerBrackets(maxTaxBracketThreshold, statePensionIncome) ==
  Max(0, Minus(maxTaxBracketThreshold, statePensionIncome))

\* variant: Step 2 draws pension without regard to the bracket room
pensionToFillBracket_IgnoresRoom(remaining, room, pension) == Min(remaining, pension)

\* Step 2: Math.min(remaining, roomInLowerBrackets, balances.pension)
pensionToFillBracket(remaining, room, pension) == Min3(remaining, room, pension)

\* Step 3 without the cap by the balance
isaToWithdraw_Uncapped(remaining, isa) == remaining

\* Step 3 drawing the whole balance whatever is still needed
isaToWithdraw_All(remaining, isa) == isa

\* Step 3: Math.min(remaining, balances.isa)
isaToWithdraw(remaining, isa) == Min(remaining, isa)

\* Step 4 drawing the whole balance whatever is still needed
lisaToWithdraw_All(remaining, lisa) == lisa

\* Step 4: Math.min(remaining, balances.lisa)
lisaToWithdraw(remaining, lisa) == Min(remaining, lisa)

\* Step 5: Math.min(remaining, balances.taxable)
taxableToWithdraw(remaining, taxable) == Min(remaining, taxable)

\* Step 5: taxableToWithdraw * (1 - taxableCostBasis / taxable)
capitalGainsOf(withdrawn, costBasis, taxable) == MulDiv(withdrawn, taxable - costBasis, taxable)

\* variant: the cost basis is left as it is by a withdrawal
reducedCostBasis_Unchanged(costBasis, taxable, withdrawn) == costBasis

\* Step 5: taxableCostBasis * (taxable - taxableToWithdraw) / taxable
reducedCostBasis(costBasis, taxable, withdrawn) == MulDiv(costBasis, taxable - withdrawn, taxable)

\* Step 6: Math.min(remaining, balances.pension)
pensionToWithdraw(remaining, pension) == Min(remaining, pension)

\* the balances after Step 5 on one person's balances, with the amount and gain
TaxableStep(b, remaining) ==
  IF remaining > 0 /\ b.taxable > 0
  THEN LET w == taxableToWithdraw(remaining, b.taxable)
       IN  [amount |-> w,
            gains  |-> capitalGainsOf(w, b.taxableCostBasis, b.taxable),
            b      |-> [b EXCEPT !.taxableCostBasis = reducedCostBasis(@, b.taxable, w),
                                 !.taxable = @ - w]]
  ELSE [amount |-> 0, gains |-> 0, b |-> b]

\* the per-source amounts of a withdrawal, all 0 when the function is entered;
\* bracketFill and overflow are the parts of pensionWithdrawal added by Step 2
\* and by Step 6
NoWithdrawal ==
  [pensionWithdrawal |-> 0, isaWithdrawal |-> 0, lisaWithdrawal |-> 0,
   taxableWithdrawal |-> 0, taxFreeLumpSum |-> 0, capitalGains |-> 0,
   bracketFill |-> 0, overflow |-> 0]

\* the per-source amounts of a withdrawal result
Parts(w) == [f \in DOMAIN NoWithdrawal |-> w[f]]

\* the locals of performWithdrawal when it is entered: remaining, the amounts,
\* the balances (which the code updates in place) and, in steps, the balances
\* as each of the six steps leaves them
WithdrawalLocals(b0, target) ==
  [remaining |-> target,
   pensionWithdrawal |-> 0, isaWithdrawal |-> 0, lisaWithdrawal |-> 0,
   taxableWithdrawal |-> 0, taxFreeLumpSum |-> 0, capitalGains |-> 0,
   total |-> 0, bracketFill |-> 0, overflow |-> 0,
   balances |-> b0, steps |-> << >>]

\* a step is over: its balances are recorded
StepDone(w) == [w EXCEPT !.steps = Append(@, w.balances)]

\* Step 1: tax-free lump sum from the pension
Step1(w, taxFreeLumpSumRemaining, canAccessPension) ==
  LET take == IF /\ canAccessPension
                 /\ w.remaining > 0
                 /\ taxFreeLumpSumRemaining > 0
                 /\ w.balances.pension > 0
              THEN lumpSumToTake(w.remaining, taxFreeLumpSumRemaining, w.balances.pension)
              ELSE 0
  IN  StepDone([w EXCEPT !.taxFreeLumpSum = take,
                         !.pensionWithdrawal = @ + take,
                         !.balances.pension = @ - take,
                         !.remaining = @ - take])

\* Step 2: pension up to the bracket ceiling
Step2(w, room, canAccessPension) ==
  LET take == IF canAccessPension /\ w.remaining > 0 /\ w.balances.pension > 0 /\ room > 0
              THEN pensionToFillBracket(w.remaining, room, w.balances.pension)
              ELSE 0
  IN  StepDone([w EXCEPT !.bracketFill = take,
                         !.pensionWithdrawal = @ + take,
                         !.balances.pension = @ - take,
                         !.remaining = @ - take])

\* Step 3: ISA
Step3(w) ==
  LET take == IF w.remaining > 0 /\ w.balances.isa > 0
              THEN isaToWithdraw(w.remaining, w.balances.isa) ELSE 0
  IN  StepDone([w EXCEPT !.isaWithdrawal = take,
                         !.balances.isa = @ - take,
                         !.remaining = @ - take])

\* Step 4: LISA
Step4(w) ==
  LET take == IF w.remaining > 0 /\ w.balances.lisa > 0
              THEN lisaToWithdraw(w.remaining, w.balances.lisa) ELSE 0
  IN  StepDone([w EXCEPT !.lisaWithdrawal = take,
                         !.balances.lisa = @ - take,
                         !.remaining = @ - take])

\* Step 5: taxable account
Step5(w) ==
  LET gia == TaxableStep(w.balances, w.remaining)
  IN  StepDone([w EXCEPT !.taxableWithdrawal = gia.amount,
                         !.capitalGains = gia.gains,
                         !.balances = gia.b,
                         !.remaining = @ - gia.amount])

\* variant: Step 6 draws the pension whether or not it can be accessed
Step6_AnyAge(w, canAccessPension) ==
  LET take == IF w.remaining > 0 /\ w.balances.pension > 0
              THEN pensionToWithdraw(w.remaining, w.balances.pension) ELSE 0
  IN  StepDone([w EXCEPT !.overflow = take,
                         !.pensionWithdrawal = @ + take,
                         !.balances.pension = @ - take,
                         !.remaining = @ - take])

\* Step 6: the rest from the pension
Step6(w, canAccessPension) ==
  LET take == IF canAccessPension /\ w.remaining > 0 /\ w.balances.pension > 0
              THEN pensionToWithdraw(w.remaining, w.balances.pension) ELSE 0
  IN  StepDone([w EXCEPT !.overflow = take,
                         !.pensionWithdrawal = @ + take,
                         !.balances.pension = @ - take,
                         !.remaining = @ - take])

\* total: pensionWithdrawal + isaWithdrawal + lisaWithdrawal + taxableWithdrawal
WithdrawalResult(w) ==
  [w EXCEPT !.total = w.pensionWithdrawal + w.isaWithdrawal + w.lisaWithdrawal
                        + w.taxableWithdrawal]

\* the result carries the balances as the call leaves them
performWithdrawal(b0, target, taxFreeLumpSumRemaining, isScottish, statePensionIncome, maxTaxBracketThreshold, canAccessPension) ==
  WithdrawalResult(
    Step6(
      Step5(
        Step4(
          Step3(
            Step2(
              Step1(WithdrawalLocals(b0, target), taxFreeLumpSumRemaining, canAccessPension),
              roomInLowerBrackets(maxTaxBracketThreshold, statePensionIncome),
              canAccessPension)))),
      canAccessPension))

\* Math.round(base * taxBandInflationFactor), Infinity kept as it is
inflatedThreshold(base, taxBandInflationFactor) ==
  IF base = Infinity THEN Infinity ELSE MathRound(Times(base, taxBandInflationFactor))

\* the bracket ceiling of a person: TAX_BRACKET_THRESHOLDS by jurisdiction
baseMaxTaxBracketThreshold(taxBracketTarget, isScottish) ==
  LET thresholds == TAX_BRACKET_THRESHOLDS[taxBracketTarget]
  IN  IF isScottish THEN thresholds.scottish ELSE thresholds.uk

Both(x, y) == [person1 |-> x, person2 |-> y]

\* p1MaxBracket and p2MaxBracket
coupleMaxBrackets(taxBracketTarget, isScottish, taxBandInflationFactor) ==
  Both(inflatedThreshold(
         baseMaxTaxBracketThreshold(taxBracketTarget.person1, isScottish.person1),
         taxBandInflationFactor),
       inflatedThreshold(
         baseMaxTaxBracketThreshold(taxBracketTarget.person2, isScottish.person2),
         taxBandInflationFactor))

\* the locals of performCoupleWithdrawal when it is entered
CoupleLocals(cb0, target, maxBracket) ==
  [remaining |-> target, person1 |-> NoWithdrawal, person2 |-> NoWithdrawal,
   total |-> 0, maxBracket |-> maxBracket, balances |-> cb0, steps |-> << >>]

\* variant: Step 1 serves the other person, so person2 comes first
CoupleLumpSum_Person2First(cw, p, taxFreeLumpSum, canAccessPension) ==
  LET q    == IF p = "person1" THEN "person2" ELSE "person1"
      take == IF /\ canAccessPension[q]
                 /\ cw.remaining > 0
                 /\ taxFreeLumpSum[q] > 0
                 /\ cw.balances[q].pension > 0
              THEN lumpSumToTake(cw.remaining, taxFreeLumpSum[q], cw.balances[q].pension)
              ELSE 0
  IN  [cw EXCEPT ![q].taxFreeLumpSum = take,
                 ![q].pensionWithdrawal = @ + take,
                 !.balances[q].pension = @ - take,
                 !.remaining = @ - take]

\* Step 1 for person p
CoupleLumpSum(cw, p, taxFreeLumpSum, canAccessPension) ==
  LET take == IF /\ canAccessPension[p]
                 /\ cw.remaining > 0
                 /\ taxFreeLumpSum[p] > 0
                 /\ cw.balances[p].pension > 0
              THEN lumpSumToTake(cw.remaining, taxFreeLumpSum[p], cw.balances[p].pension)
              ELSE 0
  IN  [cw EXCEPT ![p].taxFreeLumpSum = take,
                 ![p].pensionWithdrawal = @ + take,
                 !.balances[p].pension = @ - take,
                 !.remaining = @ - take]

\* Step 2 for person p: pXRoomInBracket = Math.max(0, pXMaxBracket - statePension)
CoupleBracketFill(cw, p, statePension, canAccessPension) ==
  LET room == Max(0, Minus(cw.maxBracket[p], statePension[p]))
      take == IF /\ cw.remaining > 0
                 /\ canAccessPension[p]
                 /\ room > 0
                 /\ cw.balances[p].pension > 0
              THEN pensionToFillBracket(cw.remaining, room, cw.balances[p].pension)
              ELSE 0
  IN  [cw EXCEPT ![p].bracketFill = take,
                 ![p].pensionWithdrawal = @ + take,
                 !.balances[p].pension = @ - take,
                 !.remaining = @ - take]

\* Step 3 for person p
CoupleIsa(cw, p) ==
  LET take == IF cw.remaining > 0 /\ cw.balances[p].isa > 0
              THEN isaToWithdraw(cw.remaining, cw.balances[p].isa) ELSE 0
  IN  [cw EXCEPT ![p].isaWithdrawal = take,
                 !.balances[p].isa = @ - take,
                 !.remaining = @ - take]

\* Step 4 for person p
CoupleLisa(cw, p) ==
  LET take == IF cw.remaining > 0 /\ cw.balances[p].lisa > 0
              THEN lisaToWithdraw(cw.remaining, cw.balances[p].lisa) ELSE 0
  IN  [cw EXCEPT ![p].lisaWithdrawal = take,
                 !.balances[p].lisa = @ - take,
                 !.remaining = @ - take]

\* Step 5 for person p
CoupleTaxable(cw, p) ==
  LET gia == TaxableStep(cw.balances[p], cw.remaining)
  IN  [cw EXCEPT ![p].taxableWithdrawal = gia.amount,
                 ![p].capitalGains = gia.gains,
                 !.balances[p] = gia.b,
                 !.remaining = @ - gia.amount]

\* Step 6 for person p
CoupleOverflow(cw, p, canAccessPension) ==
  LET take == IF canAccessPension[p] /\ cw.remaining > 0 /\ cw.balances[p].pension > 0
              THEN pensionToWithdraw(cw.remaining, cw.balances[p].pension) ELSE 0
  IN  [cw EXCEPT ![p].overflow = take,
                 ![p].pensionWithdrawal = @ + take,
                 !.balances[p].pension = @ - take,
                 !.remaining = @ - take]

\* the sum of one person's withdrawals
PersonTotal(w) ==
  w.pensionWithdrawal + w.isaWithdrawal + w.lisaWithdrawal + w.taxableWithdrawal

CoupleResult(cw) == [cw EXCEPT !.total = PersonTotal(cw.person1) + PersonTotal(cw.person2)]

\* every step serves person1, then person2; both persons' balances after each
\* step are in steps, and each person's result has the fields of NoWithdrawal
performCoupleWithdrawal(cb0, target, taxFreeLumpSum, isScottish, statePension, taxBracketTarget, canAccessPension, taxBandInflationFactor) ==
  CoupleResult(
    StepDone(CoupleOverflow(CoupleOverflow(
      StepDone(CoupleTaxable(CoupleTaxable(
        StepDone(CoupleLisa(CoupleLisa(
          StepDone(CoupleIsa(CoupleIsa(
            StepDone(CoupleBracketFill(CoupleBracketFill(
              StepDone(CoupleLumpSum(CoupleLumpSum(
                CoupleLocals(cb0, target,
                  coupleMaxBrackets(taxBracketTarget, isScottish, taxBandInflationFactor)),
                "person1", taxFreeLumpSum, canAccessPension),
                "person2", taxFreeLumpSum, canAccessPension)),
              "person1", statePension, canAccessPension),
              "person2", statePension, canAccessPension)),
            "person1"), "person2")),
          "person1"), "person2")),
        "person1"), "person2")),
      "person1", canAccessPension), "person2", canAccessPension)))

(***************************************************************************)
(* Tax bands (src/src/utils/taxes.ts)                                      *)
(***************************************************************************)
getTaxBands(isScottish, inflationFactor) ==
  LET baseBands == IF isScottish THEN SCOTTISH_TAX_BANDS ELSE UK_TAX_BANDS
  IN  IF inflationFactor = One THEN baseBands
      ELSE [i \in 1..Len(baseBands) |->
              [baseBands[i] EXCEPT
                 !.min = MathRound(Times(@, inflationFactor)),
                 !.max = IF @ = Infinity THEN Infinity
                         ELSE MathRound(Times(@, inflationFactor))]]

\* amount * rate for a rate in percent, exactly: whole ticks (t) and
\* hundredths of a tick (h)
Percent(amount, rate) ==
  [t |-> (amount \div 100) * rate + ((amount % 100) * rate) \div 100,
   h |-> ((amount % 100) * rate) % 100]

NoTax == [t |-> 0, h |-> 0]

TaxAdd(a, b) ==
  [t |-> a.t + b.t + (a.h + b.h) \div 100, h |-> (a.h + b.h) % 100]

TaxLeq(a, b) == a.t < b.t \/ (a.t = b.t /\ a.h <= b.h)

\* Math.round(PERSONAL_ALLOWANCE * inflationFactor)
inflatedPersonalAllowance(inflationFactor) ==
  MathRound(Times(PERSONAL_ALLOWANCE, inflationFactor))

\* Math.round(PERSONAL_ALLOWANCE_TAPER_THRESHOLD * inflationFactor)
inflatedTaperThreshold(inflationFactor) ==
  MathRound(Times(PERSONAL_ALLOWANCE_TAPER_THRESHOLD, inflationFactor))

\* the reduction at one pound for every two pounds over the threshold
taperReduction(income, inflationFactor) ==
  MathFloorHalf(income - inflatedTaperThreshold(inflationFactor))

\* effective personal allowance (tapers above threshold)
personalAllowance(income, inflationFactor) ==
  IF income > inflatedTaperThreshold(inflationFactor)
  THEN Max(0, inflatedPersonalAllowance(inflationFactor)
                - taperReduction(income, inflationFactor))
  ELSE inflatedPersonalAllowance(inflationFactor)
\* variant: only the first band follows the tapered allowance
adjustedBands_FirstOnly(bands, standardAllowance, allowance) ==
  [index \in 1..Len(bands) |->
     IF index = 1 THEN [bands[index] EXCEPT !.max = allowance]
     ELSE bands[index]]

\* Adjust bands for personal allowance: the first band ends at the allowance,
\* the others shift by the difference from the standard personal allowance
adjustedBands(bands, standardAllowance, allowance) ==
  [index \in 1..Len(bands) |->
     IF index = 1 THEN [bands[index] EXCEPT !.max = allowance]
     ELSE [bands[index] EXCEPT
             !.min = Max(0, @ - (standardAllowance - allowance)),
             !.max = Minus(@, standardAllowance - allowance)]]

taxableInBand(grossIncome, remainingIncome, band) ==
  Min(remainingIncome, Max(0, Min(grossIncome, band.max) - band.min))

NoIncomeTax == [tax |-> NoTax, breakdown |-> << >>]
\* variant: the tax of a band replaces the tax of the bands below it
TaxInBand_LastBandOnly(out, band, amount) ==
  [tax       |-> Percent(amount, band.rate),
   breakdown |-> Append(out.breakdown,
                   [band |-> band.name, amount |-> amount,
                    tax  |-> Percent(amount, band.rate)])]

TaxInBand(out, band, amount) ==
  [tax       |-> TaxAdd(out.tax, Percent(amount, band.rate)),
   breakdown |-> Append(out.breakdown,
                   [band |-> band.name, amount |-> amount,
                    tax  |-> Percent(amount, band.rate)])]

\* for (const band of adjustedBands)
RECURSIVE BandLoop(_, _, _, _, _)
BandLoop(bands, i, grossIncome, remainingIncome, out) ==
  IF i > Len(bands) \/ remainingIncome <= 0 THEN out
  ELSE IF grossIncome <= bands[i].min
          \/ taxableInBand(grossIncome, remainingIncome, bands[i]) <= 0
  THEN BandLoop(bands, i + 1, grossIncome, remainingIncome, out)
  ELSE BandLoop(bands, i + 1, grossIncome,
         remainingIncome - taxableInBand(grossIncome, remainingIncome, bands[i]),
         TaxInBand(out, bands[i],
                   taxableInBand(grossIncome, remainingIncome, bands[i])))

calculateIncomeTax(grossIncome, isScottish, inflationFactor) ==
  IF grossIncome <= 0 THEN NoIncomeTax
  ELSE BandLoop(
         adjustedBands(getTaxBands(isScottish, inflationFactor),
                       inflatedPersonalAllowance(inflationFactor),
                       personalAllowance(grossIncome, inflationFactor)),
         1, grossIncome, grossIncome, NoIncomeTax)

\* Apply annual exempt amount (inflated if applicable)
taxableGains(capitalGains, inflationFactor) ==
  Max(0, capitalGains - MathRound(Times(CGT_ANNUAL_EXEMPT_AMOUNT, inflationFactor)))

\* Basic rate limit (inflated)
basicRateLimit(isScottish, inflationFactor) ==
  MathRound(Times(IF isScottish THEN GBP(43662) ELSE GBP(50270), inflationFactor))
\* variant: the other income does not use up the basic-rate band
remainingBasicBand_IgnoresIncome(limit, allowance, otherIncome) ==
  Max(0, limit - allowance)

remainingBasicBand(limit, allowance, otherIncome) ==
  Max(0, limit - allowance - Max(0, otherIncome - allowance))

gainsAtBasicRate(gains, otherIncome, isScottish, inflationFactor) ==
  Min(gains,
      remainingBasicBand(basicRateLimit(isScottish, inflationFactor),
                         personalAllowance(otherIncome + gains, inflationFactor),
                         otherIncome))

calculateCapitalGainsTax(capitalGains, otherIncome, isScottish, inflationFactor) ==
  IF capitalGains <= 0 \/ taxableGains(capitalGains, inflationFactor) <= 0
  THEN NoTax
  ELSE TaxAdd(
         Percent(gainsAtBasicRate(taxableGains(capitalGains, inflationFactor),
                                  otherIncome, isScottish, inflationFactor),
                 CGT_BASIC_RATE),
         Percent(Max(0, taxableGains(capitalGains, inflationFactor)
                        - gainsAtBasicRate(taxableGains(capitalGains, inflationFactor),
                                           otherIncome, isScottish, inflationFactor)),
                 CGT_HIGHER_RATE))

(***************************************************************************)
(* Retirement simulator (src/src/utils/withdrawals.ts)                     *)
(***************************************************************************)
\* Math.pow(1 + assumptions.inflationRate, years)
inflationPow(inflationRate, years) == MathPow(OnePlus(inflationRate), years)

\* the exponent of the withdrawal target's inflation factor
targetInflationYears(yi, yearsFromToday) == yi

\* the exponent of the state pension's inflation factor
statePensionInflationYears(yi, yearsFromToday) == yearsFromToday

\* the tax bands inflated at a built-in 50% instead of assumptions.inflationRate
taxBandFactor_BuiltInRate(asm, yearsFromToday) ==
  IF asm.inflateTaxBands THEN inflationPow(1, yearsFromToday) ELSE One

taxBandFactor(asm, yearsFromToday) ==
  IF asm.inflateTaxBands THEN inflationPow(asm.inflationRate, yearsFromToday) ELSE One

\* the state pension paid to a person entitled to amount (today's money)
statePensionAt(age, statePensionAge, amount, inflationRate, yearsFromToday) ==
  IF age >= statePensionAge
  THEN Times(amount, inflationPow(inflationRate, yearsFromToday))
  ELSE 0

\* balances *= 1 + returnRate, the cost basis only while a taxable balance is left
applyReturns(b, returnRate) ==
  LET taxable == Times(b.taxable, OnePlus(returnRate))
  IN  [pension |-> Times(b.pension, OnePlus(returnRate)),
       isa     |-> Times(b.isa, OnePlus(returnRate)),
       lisa    |-> Times(b.lisa, OnePlus(returnRate)),
       taxable |-> taxable,
       taxableCostBasis |-> IF taxable > 0
                            THEN Times(b.taxableCostBasis, OnePlus(returnRate))
                            ELSE b.taxableCostBasis]

\* the allowance left, the year's lump sum not deducted
lumpSumLeft_NotDeducted(taxFreeLumpSumRemaining, taken) == taxFreeLumpSumRemaining

\* Math.max(0, taxFreeLumpSumRemaining - withdrawal.taxFreeLumpSum)
lumpSumLeft(taxFreeLumpSumRemaining, taken) == Max(0, taxFreeLumpSumRemaining - taken)

\* the depletion age overwritten by every depleted year
depletionAge_Overwritten(portfolioDepletionAge, portfolioDepleted, age) ==
  IF portfolioDepleted THEN age ELSE portfolioDepletionAge

\* if (portfolioDepleted && portfolioDepletionAge === null) portfolioDepletionAge = age
depletionAge(portfolioDepletionAge, portfolioDepleted, age) ==
  IF portfolioDepleted /\ portfolioDepletionAge = Null THEN age ELSE portfolioDepletionAge

\* assumptions.targetRetirementIncome ?? totalPortfolio * safeWithdrawalRate
baseTarget(asm, totalPortfolio) ==
  IF asm.targetRetirementIncome # Null
  THEN asm.targetRetirementIncome
  ELSE Times(totalPortfolio, Rate(asm.safeWithdrawalRate))

EmptyRetirement ==
  [years |-> << >>, totalWithdrawn |-> 0, totalTaxPaid |-> NoTax,
   portfolioDepletionAge |-> Null]

\* an amount as an exact number of ticks and hundredths
Exact(amount) == [t |-> amount, h |-> 0]

\* a - b for exact amounts
TaxSub(a, b) ==
  [t |-> a.t - b.t + (a.h - b.h) \div 100, h |-> (a.h - b.h) % 100]

\* variant: the capital gains are taxed as income too
PersonTaxes_GainsAsIncome(taxableIncome, capitalGains, isScottish, taxBandInflationFactor) ==
  [incomeTax       |-> calculateIncomeTax(Max(0, taxableIncome + capitalGains), isScottish,
                                          taxBandInflationFactor).tax,
   capitalGainsTax |-> calculateCapitalGainsTax(capitalGains, taxableIncome,
                                                isScottish, taxBandInflationFactor)]

\* the income tax and the capital gains tax of one person for one year
PersonTaxes(taxableIncome, capitalGains, isScottish, taxBandInflationFactor) ==
  [incomeTax       |-> calculateIncomeTax(Max(0, taxableIncome), isScottish,
                                          taxBandInflationFactor).tax,
   capitalGainsTax |-> calculateCapitalGainsTax(capitalGains, taxableIncome,
                                                isScottish, taxBandInflationFactor)]

NoPersonTaxes == [incomeTax |-> NoTax, capitalGainsTax |-> NoTax]

\* incomeTax, capitalGainsTax and totalTax of the year from the two persons'
YearTaxes(t1, t2) ==
  [incomeTax       |-> TaxAdd(t1.incomeTax, t2.incomeTax),
   capitalGainsTax |-> TaxAdd(t1.capitalGainsTax, t2.capitalGainsTax),
   totalTax        |-> TaxAdd(TaxAdd(t1.incomeTax, t2.incomeTax),
                              TaxAdd(t1.capitalGainsTax, t2.capitalGainsTax))]

\* statePension + pension, ISA, LISA and taxable withdrawals
GrossIncome(statePension, w1, w2) ==
  statePension + (w1.pensionWithdrawal + w2.pensionWithdrawal)
    + (w1.isaWithdrawal + w2.isaWithdrawal)
    + (w1.lisaWithdrawal + w2.lisaWithdrawal)
    + (w1.taxableWithdrawal + w2.taxableWithdrawal)

IsCouple(hh) == hh.mode = "couple" /\ hh.person2 # Undefined

\* calculateSingleWithdrawals up to its year loop
StartSingle ==
  /\ pc = "withdrawals"
  /\ ~IsCouple(household)
  /\ LET hasFinal == Len(accumulation.years) > 0
         finalAccumYear == Last(accumulation.years)
         b == [pension |-> IF hasFinal THEN finalAccumYear.pensionBalance ELSE 0,
               isa     |-> IF hasFinal THEN finalAccumYear.isaBalance ELSE 0,
               lisa    |-> IF hasFinal THEN finalAccumYear.lisaBalance ELSE 0,
               taxable |-> IF hasFinal THEN finalAccumYear.taxableBalance ELSE 0,
               taxableCostBasis |->
                 IF hasFinal THEN Times(finalAccumYear.taxableBalance, Frac(1, 2)) ELSE 0]
         lump == Times(b.pension, TAX_FREE_LUMP_SUM_RATE)
     IN  /\ balances' = [person1 |-> b, person2 |-> ZeroBalances]
         /\ lumpSumRemaining' = [person1 |-> lump, person2 |-> 0]
         /\ lumpSumAtStart' = [person1 |-> lump, person2 |-> 0]
         /\ baseWithdrawalTarget' = baseTarget(assumptions, Total(b))
         /\ retirement' = EmptyRetirement
  /\ pc' = "single"
  /\ yearIndex' = 0
  /\ UNCHANGED << inputs, ambient, accLocals, accBalances, accumulation, locals >>

\* the WithdrawalYear record pushed for a year; w1 and w2 are the two persons'
\* withdrawals (w2 all zero in single mode)
WithdrawalYear(age, year, startingBalance, endingBalance, statePension, w1, w2, total, taxableIncome, b, taxes) ==
  [age               |-> age,
   year              |-> year,
   startingBalance   |-> startingBalance,
   endingBalance     |-> Max(0, endingBalance),
   statePension      |-> statePension,
   pensionWithdrawal |-> w1.pensionWithdrawal + w2.pensionWithdrawal,
   isaWithdrawal     |-> w1.isaWithdrawal + w2.isaWithdrawal,
   lisaWithdrawal    |-> w1.lisaWithdrawal + w2.lisaWithdrawal,
   taxableWithdrawal |-> w1.taxableWithdrawal + w2.taxableWithdrawal,
   taxFreeLumpSum    |-> w1.taxFreeLumpSum + w2.taxFreeLumpSum,
   totalWithdrawal   |-> total,
   taxableIncome     |-> Max(0, taxableIncome),
   incomeTax         |-> taxes.incomeTax,
   capitalGainsTax   |-> taxes.capitalGainsTax,
   totalTax          |-> taxes.totalTax,
   netIncome         |-> TaxSub(Exact(GrossIncome(statePension, w1, w2)), taxes.totalTax),
   pensionBalance    |-> b.person1.pension + b.person2.pension,
   isaBalance        |-> b.person1.isa + b.person2.isa,
   lisaBalance       |-> b.person1.lisa + b.person2.lisa,
   taxableBalance    |-> b.person1.taxable + b.person2.taxable,
   portfolioDepleted |-> endingBalance <= 0]

\* the loop stopping a year short of the life expectancy
singleLoopRuns_Exclusive(profile, age) == age < profile.lifeExpectancy

\* the loop condition of calculateSingleWithdrawals: age <= profile.lifeExpectancy
singleLoopRuns(profile, age) == age <= profile.lifeExpectancy

\* the figures the loop body of calculateSingleWithdrawals computes for the
\* year at age before it withdraws
SingleFigures(profile, age) ==
  LET yearsUntilRetirement == profile.retirementAge - profile.currentAge
      yearsFromToday   == age - profile.currentAge
      inflationFactor  == inflationPow(assumptions.inflationRate,
                                       targetInflationYears(yearIndex, yearsFromToday))
      withdrawalTarget == Times(baseWithdrawalTarget, inflationFactor)
      taxBandInflationFactor == taxBandFactor(assumptions, yearsFromToday)
      statePension     == statePensionAt(age, profile.statePensionAge,
                            household.statePensionAmount, assumptions.inflationRate,
                            statePensionInflationYears(yearIndex, yearsFromToday))
  IN  [age              |-> age,
       year             |-> now + yearsUntilRetirement + yearIndex,
       withdrawalTarget |-> withdrawalTarget,
       taxBandInflationFactor |-> taxBandInflationFactor,
       statePension     |-> statePension,
       neededFromPortfolio |-> Max(0, withdrawalTarget - statePension),
       startingBalance  |-> Total(balances.person1),
       maxTaxBracketThreshold |->
         inflatedThreshold(
           baseMaxTaxBracketThreshold(profile.taxBracketTarget, profile.isScottish),
           taxBandInflationFactor),
       canAccessPension |-> age >= profile.privatePensionAge]

\* the rest of the loop body, once the withdrawal is made and the returns are
\* applied to the balances it leaves (after)
SingleYearEnd(profile, f, withdrawal, after) ==
  LET endingBalance == Total(after)
      taxableIncome == f.statePension + withdrawal.pensionWithdrawal
                         - withdrawal.taxFreeLumpSum
  IN  /\ balances' = Both(after, balances.person2)
      /\ lumpSumRemaining' =
           [lumpSumRemaining EXCEPT
              !.person1 = lumpSumLeft(@, withdrawal.taxFreeLumpSum)]
      /\ retirement' =
           [years |-> Append(retirement.years,
                        WithdrawalYear(f.age, f.year, f.startingBalance, endingBalance,
                                       f.statePension, withdrawal, NoWithdrawal,
                                       withdrawal.total, taxableIncome,
                                       Both(after, balances.person2),
                                       YearTaxes(
                                         PersonTaxes(taxableIncome, withdrawal.capitalGains,
                                           profile.isScottish, f.taxBandInflationFactor),
                                         NoPersonTaxes))),
            totalWithdrawn |-> retirement.totalWithdrawn + withdrawal.total,
            totalTaxPaid |->
              TaxAdd(retirement.totalTaxPaid,
                     YearTaxes(
                       PersonTaxes(taxableIncome, withdrawal.capitalGains,
                         profile.isScottish, f.taxBandInflationFactor),
                       NoPersonTaxes).totalTax),
            portfolioDepletionAge |->
              depletionAge(retirement.portfolioDepletionAge, endingBalance <= 0, f.age)]
      /\ locals' = Append(locals,
           [fn               |-> "performWithdrawal",
            ages             |-> Both(f.age, Null),
            withdrawalTarget |-> f.withdrawalTarget,
            neededFromPortfolio |-> f.neededFromPortfolio,
            taxBandInflationFactor |-> f.taxBandInflationFactor,
            taxBands         |-> Both(getTaxBands(profile.isScottish, f.taxBandInflationFactor),
                                      << >>),
            statePension     |-> Both(f.statePension, 0),
            maxTaxBracketThreshold |-> Both(f.maxTaxBracketThreshold, 0),
            canAccessPension |-> Both(f.canAccessPension, FALSE),
            lumpSumBefore    |-> lumpSumRemaining,
            before           |-> balances,
            withdrawal       |-> Both(Parts(withdrawal), NoWithdrawal),
            taxableIncome    |-> Both(taxableIncome, 0),
            taxes            |-> Both(PersonTaxes(taxableIncome, withdrawal.capitalGains,
                                        profile.isScottish, f.taxBandInflationFactor),
                                      NoPersonTaxes),
            total            |-> withdrawal.total,
            steps            |-> [i \in 1..6 |-> Both(withdrawal.steps[i], balances.person2)],
            afterWithdrawal  |-> Both(withdrawal.balances, balances.person2),
            endingBalance    |-> endingBalance])

\* the loop body from the returns on: balances *= 1 + returnRate
SingleYearReturns(profile, f, withdrawal) ==
  SingleYearEnd(profile, f, withdrawal,
                applyReturns(withdrawal.balances, assumptions.retirementReturnRate))

\* variant: the return is credited before the withdrawal is made
SingleYearWithdrawal_ReturnsFirst(profile, f) ==
  LET withdrawal ==
        performWithdrawal(applyReturns(balances.person1, assumptions.retirementReturnRate),
                          f.neededFromPortfolio, lumpSumRemaining.person1,
                          profile.isScottish, f.statePension, f.maxTaxBracketThreshold,
                          f.canAccessPension)
  IN  SingleYearEnd(profile, f, withdrawal, withdrawal.balances)

\* the loop body from the call of performWithdrawal on
SingleYearWithdrawal(profile, f) ==
  SingleYearReturns(profile, f,
    performWithdrawal(balances.person1, f.neededFromPortfolio, lumpSumRemaining.person1,
                      profile.isScottish, f.statePension, f.maxTaxBracketThreshold,
                      f.canAccessPension))

\* one iteration of the year loop of calculateSingleWithdrawals
SingleYear ==
  /\ pc = "single"
  /\ singleLoopRuns(household.person1, household.person1.retirementAge + yearIndex)
  /\ SingleYearWithdrawal(household.person1,
       SingleFigures(household.person1, household.person1.retirementAge + yearIndex))
  /\ yearIndex' = yearIndex + 1
  /\ UNCHANGED << inputs, ambient, accLocals, pc, accBalances, accumulation, lumpSumAtStart,
                  baseWithdrawalTarget >>

\* the year loop of calculateSingleWithdrawals ends and the result is returned
ReturnSingle ==
  /\ pc = "single"
  /\ ~singleLoopRuns(household.person1, household.person1.retirementAge + yearIndex)
  /\ pc' = "done"
  /\ UNCHANGED << inputs, ambient, accLocals, yearIndex, accBalances, accumulation, balances,
                  lumpSumRemaining, lumpSumAtStart, baseWithdrawalTarget,
                  retirement, locals >>

\* variant: only an account that names its owner is given to a person
splitBalances_NamedOwner(accts, acc, person) ==
  LET hasFinal == Len(acc.years) > 0
      balance(i) == IF hasFinal THEN Last(acc.years).accounts[i] ELSE accts[i].balance
      part(treatment) ==
        SumTo([i \in 1..Len(accts) |->
                 IF accts[i].owner = person /\ getTaxTreatment(accts[i].type) = treatment
                 THEN balance(i) ELSE 0],
              Len(accts))
  IN  [pension |-> part("pension"), isa |-> part("isa"), lisa |-> part("lisa"),
       taxable |-> part("taxable"),
       taxableCostBasis |-> Times(part("taxable"), Frac(1, 2))]

\* the balances the forEach of calculateCoupleWithdrawals gives to one person
splitBalances(accts, acc, person) ==
  LET hasFinal == Len(acc.years) > 0
      balance(i) == IF hasFinal THEN Last(acc.years).accounts[i] ELSE accts[i].balance
      target(i)  == IF accts[i].owner = "person2" THEN "person2" ELSE "person1"
      part(treatment) ==
        SumTo([i \in 1..Len(accts) |->
                 IF target(i) = person /\ getTaxTreatment(accts[i].type) = treatment
                 THEN balance(i) ELSE 0],
              Len(accts))
      costBasis ==
        SumTo([i \in 1..Len(accts) |->
                 IF target(i) = person /\ getTaxTreatment(accts[i].type) = "taxable"
                 THEN Times(balance(i), Frac(1, 2)) ELSE 0],
              Len(accts))
  IN  [pension |-> part("pension"), isa |-> part("isa"), lisa |-> part("lisa"),
       taxable |-> part("taxable"), taxableCostBasis |-> costBasis]

\* calculateCoupleWithdrawals up to its year loop
StartCouple ==
  /\ pc = "withdrawals"
  /\ IsCouple(household)
  /\ LET b1 == splitBalances(accounts, accumulation, "person1")
         b2 == splitBalances(accounts, accumulation, "person2")
         lump == Both(Times(b1.pension, TAX_FREE_LUMP_SUM_RATE),
                      Times(b2.pension, TAX_FREE_LUMP_SUM_RATE))
     IN  /\ balances' = Both(b1, b2)
         /\ lumpSumRemaining' = lump
         /\ lumpSumAtStart' = lump
         /\ baseWithdrawalTarget' = baseTarget(assumptions, Total(b1) + Total(b2))
         /\ retirement' = EmptyRetirement
  /\ pc' = "couple"
  /\ yearIndex' = 0
  /\ UNCHANGED << inputs, ambient, accLocals, accBalances, accumulation, locals >>

oldestCurrentAge(hh) == Max(hh.person1.currentAge, hh.person2.currentAge)
earliestRetirementAge(hh) == Min(hh.person1.retirementAge, hh.person2.retirementAge)
latestLifeExpectancy(hh) == Max(hh.person1.lifeExpectancy, hh.person2.lifeExpectancy)

\* the loop condition of calculateCoupleWithdrawals
coupleLoopRuns(hh, yi) == yi <= latestLifeExpectancy(hh) - earliestRetirementAge(hh)

\* the age the year loop gives a person: referenceAge - ageDiff + (oldest - earliest)
personAge(hh, person, referenceAge) ==
  LET ageDiff == oldestCurrentAge(hh) - person.currentAge
  IN  referenceAge - ageDiff + (oldestCurrentAge(hh) - earliestRetirementAge(hh))

\* the figures the loop body of calculateCoupleWithdrawals computes for the
\* year yearIndex before it withdraws
CoupleFigures(hh) ==
  LET person1 == hh.person1
      person2 == hh.person2
      yearsUntilRetirement == earliestRetirementAge(hh) - oldestCurrentAge(hh)
      referenceAge == earliestRetirementAge(hh) + yearIndex
      person1Age   == personAge(hh, person1, referenceAge)
      person2Age   == personAge(hh, person2, referenceAge)
      person1YearsFromToday == person1Age - person1.currentAge
      person2YearsFromToday == person2Age - person2.currentAge
      inflationFactor  == inflationPow(assumptions.inflationRate, yearIndex)
      withdrawalTarget == Times(baseWithdrawalTarget, inflationFactor)
      \* the two addends are equal, so the average is a whole number
      avgYearsFromToday == (person1YearsFromToday + person2YearsFromToday) \div 2
      halfStatePension == Times(hh.statePensionAmount, Frac(1, 2))
      person1StatePension == statePensionAt(person1Age, person1.statePensionAge,
                               halfStatePension, assumptions.inflationRate,
                               person1YearsFromToday)
      person2StatePension == statePensionAt(person2Age, person2.statePensionAge,
                               halfStatePension, assumptions.inflationRate,
                               person2YearsFromToday)
  IN  [referenceAge     |-> referenceAge,
       year             |-> now + yearsUntilRetirement + yearIndex,
       ages             |-> Both(person1Age, person2Age),
       withdrawalTarget |-> withdrawalTarget,
       taxBandInflationFactor |-> taxBandFactor(assumptions, avgYearsFromToday),
       statePension     |-> Both(person1StatePension, person2StatePension),
       totalStatePension |-> person1StatePension + person2StatePension,
       neededFromPortfolio |->
         Max(0, withdrawalTarget - (person1StatePension + person2StatePension)),
       startingBalance  |-> Total(balances.person1) + Total(balances.person2),
       canAccessPension |-> Both(person1Age >= person1.privatePensionAge,
                                 person2Age >= person2.privatePensionAge)]

\* the rest of the loop body, once the withdrawal is made and the returns are
\* applied to the balances it leaves (after)
CoupleYearEnd(hh, f, withdrawal, after) ==
  LET endingBalance == Total(after.person1) + Total(after.person2)
      person1TaxableIncome == f.statePension.person1 + withdrawal.person1.pensionWithdrawal
                                - withdrawal.person1.taxFreeLumpSum
      person2TaxableIncome == f.statePension.person2 + withdrawal.person2.pensionWithdrawal
                                - withdrawal.person2.taxFreeLumpSum
  IN  /\ balances' = after
      /\ lumpSumRemaining' =
           Both(lumpSumLeft(lumpSumRemaining.person1, withdrawal.person1.taxFreeLumpSum),
                lumpSumLeft(lumpSumRemaining.person2, withdrawal.person2.taxFreeLumpSum))
      /\ retirement' =
           [years |-> Append(retirement.years,
                        WithdrawalYear(f.referenceAge, f.year, f.startingBalance,
                                       endingBalance, f.totalStatePension,
                                       withdrawal.person1, withdrawal.person2,
                                       withdrawal.total,
                                       person1TaxableIncome + person2TaxableIncome, after,
                                       YearTaxes(
                                         PersonTaxes(person1TaxableIncome,
                                           withdrawal.person1.capitalGains,
                                           hh.person1.isScottish, f.taxBandInflationFactor),
                                         PersonTaxes(person2TaxableIncome,
                                           withdrawal.person2.capitalGains,
                                           hh.person2.isScottish, f.taxBandInflationFactor)))),
            totalWithdrawn |-> retirement.totalWithdrawn + withdrawal.total,
            totalTaxPaid |->
              TaxAdd(retirement.totalTaxPaid,
                     YearTaxes(
                       PersonTaxes(person1TaxableIncome, withdrawal.person1.capitalGains,
                         hh.person1.isScottish, f.taxBandInflationFactor),
                       PersonTaxes(person2TaxableIncome, withdrawal.person2.capitalGains,
                         hh.person2.isScottish, f.taxBandInflationFactor)).totalTax),
            portfolioDepletionAge |->
              depletionAge(retirement.portfolioDepletionAge, endingBalance <= 0,
                           f.referenceAge)]
      /\ locals' = Append(locals,
           [fn               |-> "performCoupleWithdrawal",
            ages             |-> f.ages,
            withdrawalTarget |-> f.withdrawalTarget,
            neededFromPortfolio |-> f.neededFromPortfolio,
            taxBandInflationFactor |-> f.taxBandInflationFactor,
            taxBands         |-> Both(getTaxBands(hh.person1.isScottish, f.taxBandInflationFactor),
                                      getTaxBands(hh.person2.isScottish, f.taxBandInflationFactor)),
            statePension     |-> f.statePension,
            maxTaxBracketThreshold |-> withdrawal.maxBracket,
            canAccessPension |-> f.canAccessPension,
            lumpSumBefore    |-> lumpSumRemaining,
            before           |-> balances,
            withdrawal       |-> Both(withdrawal.person1, withdrawal.person2),
            taxableIncome    |-> Both(person1TaxableIncome, person2TaxableIncome),
            taxes            |-> Both(PersonTaxes(person1TaxableIncome,
                                        withdrawal.person1.capitalGains,
                                        hh.person1.isScottish, f.taxBandInflationFactor),
                                      PersonTaxes(person2TaxableIncome,
                                        withdrawal.person2.capitalGains,
                                        hh.person2.isScottish, f.taxBandInflationFactor)),
            total            |-> withdrawal.total,
            steps            |-> withdrawal.steps,
            afterWithdrawal  |-> withdrawal.balances,
            endingBalance    |-> endingBalance])

\* the loop body from the returns on, for both persons' balances
CoupleYearReturns(hh, f, withdrawal) ==
  CoupleYearEnd(hh, f, withdrawal,
    Both(applyReturns(withdrawal.balances.person1, assumptions.retirementReturnRate),
         applyReturns(withdrawal.balances.person2, assumptions.retirementReturnRate)))

\* the loop body from the call of performCoupleWithdrawal on
CoupleYearWithdrawal(hh, f) ==
  CoupleYearReturns(hh, f,
    performCoupleWithdrawal(balances, f.neededFromPortfolio, lumpSumRemaining,
      Both(hh.person1.isScottish, hh.person2.isScottish),
      f.statePension,
      Both(hh.person1.taxBracketTarget, hh.person2.taxBracketTarget),
      f.canAccessPension, f.taxBandInflationFactor))

\* one iteration of the year loop of calculateCoupleWithdrawals
CoupleYear ==
  /\ pc = "couple"
  /\ coupleLoopRuns(household, yearIndex)
  /\ CoupleYearWithdrawal(household, CoupleFigures(household))
  /\ yearIndex' = yearIndex + 1
  /\ UNCHANGED << inputs, ambient, accLocals, pc, accBalances, accumulation, lumpSumAtStart,
                  baseWithdrawalTarget >>

\* the year loop of calculateCoupleWithdrawals ends and the result is returned
ReturnCouple ==
  /\ pc = "couple"
  /\ ~coupleLoopRuns(household, yearIndex)
  /\ pc' = "done"
  /\ UNCHANGED << inputs, ambient, accLocals, yearIndex, accBalances, accumulation, balances,
                  lumpSumRemaining, lumpSumAtStart, baseWithdrawalTarget,
                  retirement, locals >>

(***************************************************************************)
(* Inputs                                                                  *)
(***************************************************************************)
\* the current age of person1
StartAge == 49

\* (isScottish, taxBracketTarget) of person1
Jurisdictions ==
  { << FALSE, "personal_allowance" >>, << FALSE, "basic_rate" >>, << TRUE, "basic_rate" >>,
    << FALSE, "no_limit" >> }

\* person1 retires now or in MaxAccumYears, can access the pension at
\* retirement or a year later, reaches state-pension age a year after retiring
\* and lives MaxRetireYears in retirement; or retires and dies in one year
Person1Profiles ==
  { PersonProfile(StartAge, n, MaxRetireYears, ppa, 1, j[1], j[2]) :
      n \in {0, MaxAccumYears}, ppa \in {0, 1}, j \in Jurisdictions }
  \cup
  { PersonProfile(StartAge, n, 0, 0, 0, FALSE, "basic_rate") : n \in {0, MaxAccumYears} }

\* person2 of a couple: person1's twin, or a partner a year younger who is
\* MaxAccumYears from retirement and gets pension access a year after it
Person2Profiles(p1) ==
  { p1,
    PersonProfile(StartAge - 1, MaxAccumYears, MaxRetireYears, 1, 1, FALSE, "personal_allowance") }

StatePensionAmounts == {0, GBP(10000)}

Households ==
  { [mode |-> "single", person1 |-> p1, person2 |-> Undefined, statePensionAmount |-> sp] :
      p1 \in Person1Profiles, sp \in StatePensionAmounts }
  \cup
  UNION { { [mode |-> "couple", person1 |-> p1, person2 |-> p2, statePensionAmount |-> sp] :
              p2 \in Person2Profiles(p1), sp \in StatePensionAmounts } :
          p1 \in Person1Profiles }

\* rates are in halves: inflation 0% or 50%, returns -50%, 0% or 50%,
\* safe withdrawal rate 50%
AssumptionsSet ==
  [inflationRate          : {0, 1},
   safeWithdrawalRate     : {1},
   retirementReturnRate   : {-1, 0, 1},
   targetRetirementIncome : {Null, GBP(30000)},
   inflateTaxBands        : BOOLEAN]

\* the account lists of a household: every account has the same contribution,
\* contribution growth and return
Portfolios(hh, c, g, r) ==
  LET o2 == IF hh.mode = "couple" THEN "person2" ELSE "undefined"
  IN  { << Account(1, "sipp", "person1", GBP(40000), c, g, r) >>,
        << Account(1, "isa", "undefined", GBP(10000), c, g, r) >>,
        << Account(1, "sipp", o2, GBP(10000), c, g, r),
           Account(2, "isa", "person1", GBP(40000), c, g, r),
           Account(3, "gia", "person1", GBP(10000), c, g, r) >>,
        << Account(1, "workplace_pension", "person1", GBP(20000), c, g, r),
           Account(2, "isa", o2, GBP(10000), c, g, r),
           Account(3, "lisa", "person1", GBP(4000), c, g, r),
           Account(4, "gia", o2, GBP(10000), c, g, r),
           Account(5, "sipp", o2, GBP(20000), c, g, r) >>,
        << Account(1, "lisa", "person1", GBP(4000), c, g, r),
           Account(2, "gia", o2, GBP(10000), c, g, r) >> }

EmptyAccumulation ==
  [years |-> << >>, finalBalance |-> 0, totalContributions |-> 0, totalReturns |-> 0]

\* the state when calculateAccumulation is entered with the given inputs
InitWith(hh, asm, accts) ==
  /\ household = hh
  /\ assumptions = asm
  /\ accounts = accts
  /\ pc = "accumulation"
  /\ yearIndex = 0
  /\ accBalances = [i \in 1..Len(accts) |-> accts[i].balance]
  /\ accumulation = EmptyAccumulation
  /\ balances = Both(ZeroBalances, ZeroBalances)
  /\ lumpSumRemaining = Both(0, 0)
  /\ lumpSumAtStart = Both(0, 0)
  /\ baseWithdrawalTarget = 0
  /\ retirement = EmptyRetirement
  /\ locals = << >>
  /\ accLocals = << >>
  /\ now = CurrentYear
  /\ history = << >>
  /\ calls = << >>

Init ==
  \E hh \in Households, asm \in AssumptionsSet :
    \E accts \in Portfolios(hh, GBP(4000), 0, 2) :
      InitWith(hh, asm, accts)

Next ==
  \/ AccumulateYear
  \/ ReturnAccumulation
  \/ StartSingle
  \/ StartCouple
  \/ SingleYear
  \/ ReturnSingle
  \/ CoupleYear
  \/ ReturnCouple

Spec == Init /\ [][Next]_vars

(***************************************************************************)
(* The accumulation phase on its own (src/src/utils/projections.ts)        *)
(***************************************************************************)
\* people a year either side of StartAge, retiring within MaxAccumYears
AccumPersons ==
  { PersonProfile(ca, n, MaxRetireYears, 0, 1, FALSE, "basic_rate") :
      ca \in {StartAge - 1, StartAge, StartAge + 1}, n \in 0..MaxAccumYears }

AccumHouseholds ==
  { [mode |-> "single", person1 |-> p1, person2 |-> Undefined,
     statePensionAmount |-> 0] : p1 \in AccumPersons }
  \cup
  { [mode |-> "couple", person1 |-> p1, person2 |-> p2,
     statePensionAmount |-> 0] : p1 \in AccumPersons, p2 \in AccumPersons }

\* contributions of 4000 a year that stay level or grow by 50% a year,
\* returns of 100%
InitAccum ==
  \E hh \in AccumHouseholds, g \in {0, 1} :
    \E accts \in Portfolios(hh, GBP(4000), g, 2) :
      InitWith(hh, CHOOSE asm \in AssumptionsSet : TRUE, accts)

NextAccum ==
  \/ AccumulateYear
  \/ ReturnAccumulation

SpecAccum == InitAccum /\ [][NextAccum]_vars

(***************************************************************************)
(* Projections run one after another, while the clock goes on              *)
(* (src/src/hooks/useRetirementCalculator.ts)                              *)
(***************************************************************************)
\* the number of projections run in a row
MaxRuns == 3

\* what the projection that has returned was given and gave back
Returned ==
  [accounts |-> accounts, household |-> household, assumptions |-> assumptions,
   accumulation |-> accumulation, retirement |-> retirement]

\* a new projection starts from the given inputs
Restart(hh, asm, accts) ==
  /\ household' = hh
  /\ assumptions' = asm
  /\ accounts' = accts
  /\ pc' = "accumulation"
  /\ yearIndex' = 0
  /\ accBalances' = [i \in 1..Len(accts) |-> accts[i].balance]
  /\ accumulation' = EmptyAccumulation
  /\ balances' = Both(ZeroBalances, ZeroBalances)
  /\ lumpSumRemaining' = Both(0, 0)
  /\ lumpSumAtStart' = Both(0, 0)
  /\ baseWithdrawalTarget' = 0
  /\ retirement' = EmptyRetirement
  /\ locals' = << >>
  /\ accLocals' = << >>

\* the year changes between two projections
Tick ==
  /\ pc = "done"
  /\ now < CurrentYear + 1
  /\ now' = now + 1
  /\ UNCHANGED << inputs, pc, yearIndex, accBalances, accumulation, balances,
                  lumpSumRemaining, lumpSumAtStart, baseWithdrawalTarget,
                  retirement, locals, accLocals, history, calls >>

\* the same inputs are projected once more
RunAgain ==
  /\ pc = "done"
  /\ Len(history) + 1 < MaxRuns
  /\ history' = Append(history, Returned)
  /\ Restart(household, assumptions, accounts)
  /\ UNCHANGED << now, calls >>

\* one person of a couple as a single-person household with half the
\* household's state pension
PersonHousehold(hh, p) ==
  [mode |-> "single", person1 |-> hh[p], person2 |-> Undefined,
   statePensionAmount |-> hh.statePensionAmount \div 2]

\* half the target income
PersonAssumptions(asm) ==
  [asm EXCEPT !.targetRetirementIncome = IF @ = Null THEN Null ELSE @ \div 2]

\* the accounts calculateCoupleWithdrawals gives to one person
PersonAccounts(accts, p) ==
  SelectSeq(accts, LAMBDA a : (a.owner = "person2") <=> (p = "person2"))

\* the projection of one person of the couple on its own
IsPersonRun(run, couple, p) ==
  /\ run.household = PersonHousehold(couple.household, p)
  /\ run.assumptions = PersonAssumptions(couple.assumptions)
  /\ run.accounts = PersonAccounts(couple.accounts, p)

\* after a couple's projection, person 1 and then person 2 are projected alone
RunPerson ==
  /\ pc = "done"
  /\ Len(history) + 1 < MaxRuns
  /\ \E p \in PersonId :
       /\ \/ /\ history = << >>
             /\ household.mode = "couple"
             /\ p = "person1"
          \/ /\ Len(history) = 1
             /\ history[1].household.mode = "couple"
             /\ IsPersonRun(Returned, history[1], "person1")
             /\ p = "person2"
       /\ Restart(PersonHousehold(IF history = << >> THEN household
                                  ELSE history[1].household, p),
                  PersonAssumptions(IF history = << >> THEN assumptions
                                    ELSE history[1].assumptions),
                  PersonAccounts(IF history = << >> THEN accounts
                                 ELSE history[1].accounts, p))
  /\ history' = Append(history, Returned)
  /\ UNCHANGED << now, calls >>

\* people who retire now or in MaxAccumYears and can access the pension then
RunProfiles ==
  { PersonProfile(StartAge, n, MaxRetireYears, 0, 1, FALSE, tbt) :
      n \in {0, MaxAccumYears}, tbt \in {"personal_allowance", "basic_rate"} }

\* single persons, and couples of two persons with identical profiles
RunHouseholds ==
  { [mode |-> "single", person1 |-> p1, person2 |-> Undefined,
     statePensionAmount |-> sp] : p1 \in RunProfiles, sp \in StatePensionAmounts }
  \cup
  { [mode |-> "couple", person1 |-> p1, person2 |-> p1,
     statePensionAmount |-> sp] : p1 \in RunProfiles, sp \in StatePensionAmounts }

RunAssumptions ==
  { asm \in AssumptionsSet : asm.retirementReturnRate = 0 /\ asm.inflateTaxBands }

\* account lists in which each person of a couple holds the same accounts
TwinPortfolios(hh, c, g, r) ==
  IF hh.mode = "single" THEN Portfolios(hh, c, g, r)
  ELSE { << Account(1, "sipp", "person1", GBP(40000), c, g, r),
            Account(2, "sipp", "person2", GBP(40000), c, g, r) >>,
         << Account(1, "sipp", "undefined", GBP(20000), c, g, r),
            Account(2, "isa", "person1", GBP(10000), c, g, r),
            Account(3, "gia", "person1", GBP(10000), c, g, r),
            Account(4, "sipp", "person2", GBP(20000), c, g, r),
            Account(5, "isa", "person2", GBP(10000), c, g, r),
            Account(6, "gia", "person2", GBP(10000), c, g, r) >> }

InitRuns ==
  \E hh \in RunHouseholds, asm \in RunAssumptions :
    \E accts \in TwinPortfolios(hh, GBP(4000), 0, 2) :
      InitWith(hh, asm, accts)

NextRuns ==
  \/ Next
  \/ Tick
  \/ RunAgain
  \/ RunPerson

SpecRuns == InitRuns /\ [][NextRuns]_vars

(***************************************************************************)
(* Calls of the exported pure functions (src/src/utils/taxes.ts,           *)
(* src/src/utils/constants.ts, src/src/types/index.ts)                     *)
(***************************************************************************)
\* the number of calls in one sequence
MaxCalls == 2

\* incomes around the band edges and the taper zone, with a half pound
Incomes ==
  { GBP(n) : n \in {-1, 0, 1, 12570, 12571, 14876, 30000, 43662, 50270, 50271,
                    60000, 100000, 100001, 100002, 100003, 113108, 125139,
                    125140, 125141, 150000, 160000} }
  \cup { GBP(100001) + Scale \div 2, GBP(112570) + Scale \div 2 }

\* Math.pow(1 + inflationRate, years) for the rates and years of the projections
InflationFactors == { MathPow(OnePlus(1), k) : k \in 0..MaxRetireYears }

CapitalGains == { GBP(n) : n \in {0, 2000, 3000, 3001, 4500, 6750, 10000, 30000} }

OtherIncomes ==
  { GBP(n) : n \in {0, 12570, 30000, 43662, 50270, 60000, 113108, 120000} }

LegacyProfiles ==
  { householdToProfile([mode |-> "single", person1 |-> p, person2 |-> Undefined,
                        statePensionAmount |-> sp]) :
      p \in Person1Profiles, sp \in StatePensionAmounts }

PersonNames == {"Person 1", "Alex"}

\* single-person households: no second person
SingleHouseholds ==
  { [mode |-> "single", person1 |-> Named(name, p), person2 |-> Undefined,
     statePensionAmount |-> sp] :
      name \in PersonNames, p \in Person1Profiles, sp \in StatePensionAmounts }

\* the projections are at rest: no input is loaded and none is running
InitFn ==
  /\ household = CHOOSE hh \in Households : hh.mode = "single"
  /\ assumptions = CHOOSE asm \in AssumptionsSet : TRUE
  /\ accounts = << >>
  /\ pc = "idle"
  /\ yearIndex = 0
  /\ accBalances = << >>
  /\ accumulation = EmptyAccumulation
  /\ balances = Both(ZeroBalances, ZeroBalances)
  /\ lumpSumRemaining = Both(0, 0)
  /\ lumpSumAtStart = Both(0, 0)
  /\ baseWithdrawalTarget = 0
  /\ retirement = EmptyRetirement
  /\ locals = << >>
  /\ accLocals = << >>
  /\ now = CurrentYear
  /\ history = << >>
  /\ calls = << >>

Called(fn, args, result) == [fn |-> fn, args |-> args, result |-> result]

\* the return value of calculateIncomeTax, and the value of its local
\* personalAllowance when the bands were adjusted
IncomeTaxReturned(grossIncome, isScottish, inflationFactor) ==
  [tax       |-> calculateIncomeTax(grossIncome, isScottish, inflationFactor).tax,
   breakdown |-> calculateIncomeTax(grossIncome, isScottish, inflationFactor).breakdown,
   personalAllowance |-> IF grossIncome <= 0 THEN Null
                         ELSE personalAllowance(grossIncome, inflationFactor)]

CallCalculateIncomeTax ==
  /\ pc = "idle"
  /\ Len(calls) < MaxCalls
  /\ \E grossIncome \in Incomes, isScottish \in BOOLEAN,
        inflationFactor \in InflationFactors :
       /\ calls # << >> =>
            /\ Last(calls).fn = "calculateIncomeTax"
            /\ Last(calls).args.isScottish = isScottish
            /\ Last(calls).args.inflationFactor = inflationFactor
       /\ calls' = Append(calls,
            Called("calculateIncomeTax",
                   [grossIncome |-> grossIncome, isScottish |-> isScottish,
                    inflationFactor |-> inflationFactor],
                   IncomeTaxReturned(grossIncome, isScottish, inflationFactor)))
  /\ UNCHANGED << inputs, pc, yearIndex, accBalances, accumulation, balances,
                  lumpSumRemaining, lumpSumAtStart, baseWithdrawalTarget,
                  retirement, locals, accLocals, now, history >>

CallCalculateCapitalGainsTax ==
  /\ pc = "idle"
  /\ calls = << >>
  /\ \E capitalGains \in CapitalGains, otherIncome \in OtherIncomes,
        isScottish \in BOOLEAN, inflationFactor \in InflationFactors :
       calls' = Append(calls,
         Called("calculateCapitalGainsTax",
                [capitalGains |-> capitalGains, otherIncome |-> otherIncome,
                 isScottish |-> isScottish, inflationFactor |-> inflationFactor],
                calculateCapitalGainsTax(capitalGains, otherIncome, isScottish,
                                         inflationFactor)))
  /\ UNCHANGED << inputs, pc, yearIndex, accBalances, accumulation, balances,
                  lumpSumRemaining, lumpSumAtStart, baseWithdrawalTarget,
                  retirement, locals, accLocals, now, history >>

CallGetEffectivePersonalAllowance ==
  /\ pc = "idle"
  /\ calls = << >>
  /\ \E income \in Incomes :
       calls' = Append(calls,
         Called("getEffectivePersonalAllowance", [income |-> income],
                getEffectivePersonalAllowance(income)))
  /\ UNCHANGED << inputs, pc, yearIndex, accBalances, accumulation, balances,
                  lumpSumRemaining, lumpSumAtStart, baseWithdrawalTarget,
                  retirement, locals, accLocals, now, history >>

\* the argument of a conversion: a stored value, or the result of the
\* opposite conversion before it
ConversionArguments(stored, opposite) ==
  IF calls = << >> THEN stored
  ELSE IF Last(calls).fn = opposite THEN { Last(calls).result }
  ELSE {}

CallProfileToHousehold ==
  /\ pc = "idle"
  /\ Len(calls) < MaxCalls
  /\ \E profile \in ConversionArguments(LegacyProfiles, "householdToProfile") :
       /\ calls' = Append(calls,
            Called("profileToHousehold", [profile |-> profile],
                   profileToHousehold(profile)))
  /\ UNCHANGED << inputs, pc, yearIndex, accBalances, accumulation, balances,
                  lumpSumRemaining, lumpSumAtStart, baseWithdrawalTarget,
                  retirement, locals, accLocals, now, history >>

CallHouseholdToProfile ==
  /\ pc = "idle"
  /\ Len(calls) < MaxCalls
  /\ \E hh \in ConversionArguments(SingleHouseholds, "profileToHousehold") :
       /\ calls' = Append(calls,
            Called("householdToProfile", [household |-> hh],
                   householdToProfile(hh)))
  /\ UNCHANGED << inputs, pc, yearIndex, accBalances, accumulation, balances,
                  lumpSumRemaining, lumpSumAtStart, baseWithdrawalTarget,
                  retirement, locals, accLocals, now, history >>

NextFn ==
  \/ CallCalculateIncomeTax
  \/ CallCalculateCapitalGainsTax
  \/ CallGetEffectivePersonalAllowance
  \/ CallProfileToHousehold
  \/ CallHouseholdToProfile

SpecFn == InitFn /\ [][NextFn]_vars

(***************************************************************************)
(* The summary figures (src/src/components/SummaryCards.tsx) and the       *)
(* effective tax rate (src/src/utils/taxes.ts)                             *)
(***************************************************************************)
\* JavaScript a / b for an exact amount a and a number b: the quotient num/den
\* when b is not 0, otherwise Infinity, or NaN for 0 / 0
JsDivide(a, b) ==
  [kind |-> IF b # 0 THEN "finite" ELSE IF a = NoTax THEN "NaN" ELSE "Infinity",
   num  |-> a,
   den  |-> b]

\* a JavaScript number that is an exact amount
JsNumber(a) == [kind |-> "finite", num |-> a, den |-> 1]

\* Calculate total tax (income + CGT)
calculateTotalTax(income, capitalGains, isScottish) ==
  [incomeTax       |-> calculateIncomeTax(income, isScottish, One).tax,
   capitalGainsTax |-> calculateCapitalGainsTax(capitalGains, income, isScottish, One),
   totalTax        |-> TaxAdd(calculateIncomeTax(income, isScottish, One).tax,
                              calculateCapitalGainsTax(capitalGains, income, isScottish, One))]

\* Get effective tax rate
getEffectiveTaxRate(income, capitalGains, isScottish) ==
  IF income + capitalGains <= 0
  THEN JsNumber(NoTax)
  ELSE JsDivide(calculateTotalTax(income, capitalGains, isScottish).totalTax,
                income + capitalGains)

\* x || 1 for an amount x
OrOne(x) == IF x # 0 THEN x ELSE GBP(1)

\* the figures SummaryCards computes before it renders its cards
SummaryCards(acc, ret, profile) ==
  [yearsToRetirement |-> profile.retirementAge - profile.currentAge,
   retirementLength  |-> profile.lifeExpectancy - profile.retirementAge,
   effectiveTaxRate  |-> JsDivide(ret.totalTaxPaid, OrOne(ret.totalWithdrawn)),
   averageAnnualTax  |-> JsDivide(ret.totalTaxPaid,
                                  profile.lifeExpectancy - profile.retirementAge),
   investmentGrowth  |-> JsDivide(Exact(acc.totalReturns), OrOne(acc.totalContributions))]

\* the summary tab renders the cards for the results of the projection
RenderSummaryCards ==
  /\ pc = "done"
  /\ calls = << >>
  /\ calls' = << Called("SummaryCards",
                        << accumulation, retirement, householdToProfile(household) >>,
                        SummaryCards(accumulation, retirement,
                                     householdToProfile(household))) >>
  /\ UNCHANGED << inputs, now, history, pc, yearIndex, accBalances, accumulation,
                  balances, lumpSumRemaining, lumpSumAtStart, baseWithdrawalTarget,
                  retirement, locals, accLocals >>

NextSummary == Next \/ RenderSummaryCards

SpecSummary == Init /\ [][NextSummary]_vars

(***************************************************************************)
(* Properties                                                              *)
(***************************************************************************)
Categories == {"pension", "isa", "lisa", "taxable"}

Years == 1..Len(locals)

\* the persons of the household
Persons == IF IsCouple(household) THEN PersonId ELSE {"person1"}

\* C1: every category balance of every person is >= 0 after each of the six
\* withdrawal steps of every simulated year and at the end of every year
\* (after the return), in single and in couple mode
C1_BalancesNonNegative ==
  /\ \A p \in PersonId, c \in Categories : balances[p][c] >= 0
  /\ \A k \in Years, i \in 1..6, p \in PersonId, c \in Categories :
       locals[k].steps[i][p][c] >= 0

\* a couple whose balances shrink with a negative return has drawn an account
\* down to exactly 0 and left the target partly unfunded
C1_Witness ==
  /\ IsCouple(household)
  /\ assumptions.retirementReturnRate < 0
  /\ \E k \in Years :
       /\ locals[k].total > 0
       /\ locals[k].total < locals[k].neededFromPortfolio
       /\ \E p \in PersonId : /\ locals[k].before[p].isa > 0
                              /\ locals[k].afterWithdrawal[p].isa = 0

\* the funds performWithdrawal can reach
Accessible(b, canAccessPension) ==
  b.isa + b.lisa + b.taxable + (IF canAccessPension THEN b.pension ELSE 0)

\* C2: every call of performWithdrawal returns total = min(target, accessible
\* funds); the total never exceeds the target, and the target is missed only
\* when every accessible balance is left at 0
C2_TotalIsMinTargetAccessible ==
  \A k \in Years :
    locals[k].fn = "performWithdrawal" =>
      LET target == locals[k].neededFromPortfolio
          can    == locals[k].canAccessPension.person1
          left   == locals[k].afterWithdrawal.person1
      IN  /\ locals[k].total = Min(target, Accessible(locals[k].before.person1, can))
          /\ locals[k].total <= target
          /\ locals[k].total < target => Accessible(left, can) = 0

\* a call that misses its target while a pension it cannot access is untouched
C2_Witness ==
  \E k \in Years :
    /\ locals[k].fn = "performWithdrawal"
    /\ locals[k].total > 0
    /\ locals[k].total < locals[k].neededFromPortfolio
    /\ ~locals[k].canAccessPension.person1
    /\ locals[k].afterWithdrawal.person1.pension > 0

RECURSIVE LumpSumTaken(_, _)
\* the tax-free lump sum a person has taken in the first k years
LumpSumTaken(p, k) ==
  IF k = 0 THEN 0 ELSE locals[k].withdrawal[p].taxFreeLumpSum + LumpSumTaken(p, k - 1)

\* C3: per person, the lump sums taken so far never exceed 25% of the pension
\* balance at the start of retirement; the remaining allowance never grows
\* from year to year; and in a year that starts with no allowance left the
\* lump sum is 0 and the taxable income is the state pension plus the whole
\* pension withdrawal
C3_LumpSumAllowance ==
  \A p \in PersonId :
    /\ Len(locals) > 0 => 4 * lumpSumAtStart[p] = locals[1].before[p].pension
    /\ LumpSumTaken(p, Len(locals)) <= lumpSumAtStart[p]
    /\ \A k \in Years :
         /\ locals[k].lumpSumBefore[p]
              >= (IF k < Len(locals) THEN locals[k + 1].lumpSumBefore[p]
                                     ELSE lumpSumRemaining[p])
         /\ locals[k].lumpSumBefore[p] = 0 =>
              /\ locals[k].withdrawal[p].taxFreeLumpSum = 0
              /\ locals[k].taxableIncome[p] =
                   locals[k].statePension[p] + locals[k].withdrawal[p].pensionWithdrawal

\* a person whose allowance was used up in an earlier year draws pension
C3_Witness ==
  \E p \in PersonId, k \in Years :
    /\ k > 1
    /\ lumpSumAtStart[p] > 0
    /\ locals[k].lumpSumBefore[p] = 0
    /\ locals[k].withdrawal[p].pensionWithdrawal > 0

\* the calls of performWithdrawal whose target the ISA balance alone can fund
\* while the pension and the taxable account hold money
IsaCanFund(k) ==
  /\ locals[k].fn = "performWithdrawal"
  /\ locals[k].neededFromPortfolio <= locals[k].before.person1.isa
  /\ locals[k].before.person1.pension > 0
  /\ locals[k].before.person1.taxable > 0

IsaOnly(k) ==
  /\ locals[k].withdrawal.person1.pensionWithdrawal = 0
  /\ locals[k].withdrawal.person1.taxableWithdrawal = 0
  /\ locals[k].withdrawal.person1.isaWithdrawal = locals[k].neededFromPortfolio

NoPensionFirst(k) ==
  \/ ~locals[k].canAccessPension.person1
  \/ /\ locals[k].lumpSumBefore.person1 = 0
     /\ roomInLowerBrackets(locals[k].maxTaxBracketThreshold.person1,
                            locals[k].statePension.person1) = 0

C5_NoLimitDrawsPensionLast ==
  \A k \in Years :
    (/\ locals[k].fn = "performWithdrawal"
     /\ household.person1.taxBracketTarget = "no_limit"
     /\ locals[k].withdrawal.person1.pensionWithdrawal
          > locals[k].withdrawal.person1.taxFreeLumpSum)
    => /\ locals[k].afterWithdrawal.person1.isa = 0
       /\ locals[k].afterWithdrawal.person1.lisa = 0
       /\ locals[k].afterWithdrawal.person1.taxable = 0

\* the simulated years that end with nothing left
DepletedYears == { k \in 1..Len(retirement.years) : retirement.years[k].endingBalance <= 0 }

\* C6: portfolioDepletionAge is the age of the earliest simulated year whose
\* ending total balance is <= 0, whatever depleted years follow, and null
\* while there is none
C6_DepletionAgeIsEarliest ==
  IF DepletedYears = {}
  THEN retirement.portfolioDepletionAge = Null
  ELSE \E k \in DepletedYears :
         /\ \A j \in DepletedYears : k <= j
         /\ retirement.portfolioDepletionAge = retirement.years[k].age

\* two years have ended depleted, in single or couple mode
C6_Witness ==
  /\ Cardinality(DepletedYears) >= 2
  /\ retirement.portfolioDepletionAge # retirement.years[Len(retirement.years)].age

\* C7: the single-mode simulation returns lifeExpectancy - retirementAge + 1
\* yearly records, and every year after a depleted year is flagged depleted,
\* withdraws nothing and ends with all balances 0
C7_FullHorizonAfterDepletion ==
  ~IsCouple(household) =>
    /\ pc = "done" =>
         Len(retirement.years) =
           household.person1.lifeExpectancy - household.person1.retirementAge + 1
    /\ \A k, j \in 1..Len(retirement.years) :
         (k < j /\ retirement.years[k].portfolioDepleted) =>
           /\ retirement.years[j].portfolioDepleted
           /\ retirement.years[j].totalWithdrawal = 0
           /\ retirement.years[j].pensionBalance = 0
           /\ retirement.years[j].isaBalance = 0
           /\ retirement.years[j].lisaBalance = 0
           /\ retirement.years[j].taxableBalance = 0

\* a single-mode run is over, depleted since its first year after a withdrawal
C7_Witness ==
  /\ pc = "done"
  /\ ~IsCouple(household)
  /\ Len(retirement.years) = MaxRetireYears + 1
  /\ retirement.years[1].portfolioDepleted
  /\ retirement.years[1].totalWithdrawal > 0

\* C8 as claimed: in the single-mode year at age a the withdrawal target is the
\* base target times (1 + inflationRate)^(a - currentAge)
C8_TargetCompoundsFromToday ==
  \A k \in Years :
    locals[k].fn = "performWithdrawal" =>
      locals[k].withdrawalTarget =
        Times(baseWithdrawalTarget,
              inflationPow(assumptions.inflationRate,
                           locals[k].ages.person1 - household.person1.currentAge))

\* C9: with inflationRate = 0 the withdrawal target, the tax bands, the bracket
\* ceiling and the state pension of the years in which it is paid are the same
\* in all simulated years, with inflateTaxBands on or off
C9_ZeroInflationConstantFigures ==
  assumptions.inflationRate = 0 =>
    \A j, k \in Years :
      /\ locals[j].withdrawalTarget = locals[k].withdrawalTarget
      /\ locals[j].taxBands = locals[k].taxBands
      /\ locals[j].maxTaxBracketThreshold = locals[k].maxTaxBracketThreshold
      /\ \A p \in Persons :
           (/\ locals[j].ages[p] >= household[p].statePensionAge
            /\ locals[k].ages[p] >= household[p].statePensionAge)
           => locals[j].statePension[p] = locals[k].statePension[p]

\* three years simulated at zero inflation with inflateTaxBands on, the state
\* pension paid in the last two
C9_Witness ==
  /\ assumptions.inflationRate = 0
  /\ assumptions.inflateTaxBands
  /\ Len(locals) >= 3
  /\ locals[2].statePension.person1 > 0
  /\ locals[3].statePension.person1 = locals[2].statePension.person1

\* C10 as claimed: one account with balance B, constant contribution C and
\* return r ends the accumulation at B*(1+r)^N + C*((1+r)^N - 1)/r, where
\* N = retirementAge - currentAge
C10_AnnuityFormula ==
  (/\ pc # "accumulation"
   /\ household.mode = "single"
   /\ Len(accounts) = 1
   /\ accounts[1].contributionGrowthRate = 0
   /\ accounts[1].expectedReturn # 0)
  => LET N == household.person1.retirementAge - household.person1.currentAge
         g == MathPow(OnePlus(accounts[1].expectedReturn), N)
     IN  accumulation.finalBalance =
           Times(accounts[1].balance, g)
           + MulDiv(accounts[1].annualContribution, 2 * (g.n - g.d),
                    g.d * accounts[1].expectedReturn)

(***************************************************************************)
(* Properties of the pure functions                                        *)
(***************************************************************************)
CallsOf(fn) == { i \in 1..Len(calls) : calls[i].fn = fn }

\* a conversion whose argument is the result of the opposite conversion
RoundTrips(first, second) ==
  { i \in 2..Len(calls) : calls[i].fn = second /\ calls[i - 1].fn = first }

\* householdToProfile(profileToHousehold(p)) = p for every call made
ProfileRoundTrip ==
  \A i \in RoundTrips("profileToHousehold", "householdToProfile") :
    calls[i].result = calls[i - 1].args.profile

\* C16 (as stated): the translation is lossless in both directions:
\* householdToProfile(profileToHousehold(p)) = p for every legacy profile p,
\* and profileToHousehold(householdToProfile(h)) = h for every single-person
\* household h.
C16_TranslationLossless ==
  /\ ProfileRoundTrip
  /\ \A i \in RoundTrips("householdToProfile", "profileToHousehold") :
       calls[i].result = calls[i - 1].args.household

\* C16 (amended): householdToProfile(profileToHousehold(p)) = p for every
\* legacy profile p, and profileToHousehold(householdToProfile(h)) is h with
\* the name of person 1 replaced by "Person 1", for every single-person
\* household h.
C16_TranslationLosesName ==
  /\ ProfileRoundTrip
  /\ \A i \in RoundTrips("householdToProfile", "profileToHousehold") :
       calls[i].result =
         [calls[i - 1].args.household EXCEPT !.person1.name = "Person 1"]

\* a household with a custom name went to a legacy profile and back
C16_Witness ==
  \E i \in RoundTrips("householdToProfile", "profileToHousehold") :
    /\ calls[i - 1].args.household.person1.name # "Person 1"
    /\ calls[i - 1].args.household.statePensionAmount > 0
    /\ calls[i].result.person1.currentAge
         = calls[i - 1].args.household.person1.currentAge

RECURSIVE TaxSum(_, _)
\* breakdown[1].tax + ... + breakdown[n].tax
TaxSum(breakdown, n) ==
  IF n = 0 THEN NoTax ELSE TaxAdd(TaxSum(breakdown, n - 1), breakdown[n].tax)

AmountSum(breakdown) ==
  SumTo([k \in 1..Len(breakdown) |-> breakdown[k].amount], Len(breakdown))

\* C17: for every income >= 0, jurisdiction and inflation factor the
\* breakdown amounts of calculateIncomeTax sum exactly to the income, also
\* when the personal allowance is tapered, and the returned tax is the sum of
\* the per-band taxes; an income <= 0 yields zero tax and an empty breakdown.
C17_BreakdownSumsToIncome ==
  \A i \in CallsOf("calculateIncomeTax") :
    /\ calls[i].args.grossIncome >= 0 =>
         /\ AmountSum(calls[i].result.breakdown) = calls[i].args.grossIncome
         /\ calls[i].result.tax
              = TaxSum(calls[i].result.breakdown, Len(calls[i].result.breakdown))
    /\ calls[i].args.grossIncome <= 0 =>
         /\ calls[i].result.tax = NoTax
         /\ calls[i].result.breakdown = << >>

\* the allowance of an income-tax call is tapered, but not to nothing
Tapered(i) ==
  /\ calls[i].args.grossIncome > 0
  /\ calls[i].result.personalAllowance > 0
  /\ calls[i].result.personalAllowance
       < inflatedPersonalAllowance(calls[i].args.inflationFactor)

\* an income in the taper zone of inflated bands was taxed in three bands
C17_Witness ==
  \E i \in CallsOf("calculateIncomeTax") :
    /\ Tapered(i)
    /\ calls[i].args.inflationFactor # One
    /\ Len(calls[i].result.breakdown) >= 3

\* C18: for a fixed jurisdiction and inflation factor calculateIncomeTax is
\* monotonically non-decreasing in income, also across the taper zone.
C18_TaxMonotoneInIncome ==
  \A i, j \in CallsOf("calculateIncomeTax") :
    ( /\ calls[i].args.isScottish = calls[j].args.isScottish
      /\ calls[i].args.inflationFactor = calls[j].args.inflationFactor
      /\ calls[i].args.grossIncome <= calls[j].args.grossIncome )
    => TaxLeq(calls[i].result.tax, calls[j].result.tax)

\* two incomes in the taper zone, the larger with the smaller allowance
C18_Witness ==
  \E i, j \in CallsOf("calculateIncomeTax") :
    /\ Tapered(i) /\ Tapered(j)
    /\ calls[i].args.grossIncome < calls[j].args.grossIncome
    /\ calls[j].result.personalAllowance < calls[i].result.personalAllowance
    /\ calls[i].result.tax # calls[j].result.tax

\* C19: the effective personal allowance is the full allowance at an income
\* equal to the taper threshold, 0 at the threshold plus twice the allowance,
\* and in between max(0, allowance - floor((income - threshold) / 2));
\* calculateIncomeTax uses the value of getEffectivePersonalAllowance when
\* its inflation factor is 1.
C19_TaperedAllowance ==
  /\ \A i \in CallsOf("getEffectivePersonalAllowance") :
       /\ calls[i].args.income = GBP(100000) => calls[i].result = GBP(12570)
       /\ calls[i].args.income = GBP(100000) + 2 * GBP(12570) => calls[i].result = 0
       /\ ( calls[i].args.income > GBP(100000)
            /\ calls[i].args.income < GBP(100000) + 2 * GBP(12570) ) =>
            calls[i].result =
              Max(0, GBP(12570)
                       - GBP((calls[i].args.income - GBP(100000)) \div GBP(2)))
  /\ \A i \in CallsOf("calculateIncomeTax") :
       ( calls[i].args.inflationFactor = One /\ calls[i].args.grossIncome > 0 ) =>
         calls[i].result.personalAllowance
           = getEffectivePersonalAllowance(calls[i].args.grossIncome)

\* the allowance of an income an odd half pound into the taper zone
C19_Witness ==
  \E i \in CallsOf("getEffectivePersonalAllowance") :
    /\ calls[i].args.income > GBP(100000)
    /\ (calls[i].args.income - GBP(100000)) % GBP(2) # 0
    /\ calls[i].result > 0
    /\ calls[i].result < GBP(12570)

\* the (inflation-scaled) annual exempt amount
ExemptAmount(inflationFactor) == MathRound(Times(GBP(3000), inflationFactor))

\* the (inflation-scaled) basic-rate limit of a jurisdiction
BasicRateLimit(isScottish, inflationFactor) ==
  MathRound(Times(IF isScottish THEN TAX_BRACKET_THRESHOLDS["basic_rate"].scottish
                  ELSE TAX_BRACKET_THRESHOLDS["basic_rate"].uk,
                  inflationFactor))

\* C20: calculateCapitalGainsTax returns 0 when the gains are at most the
\* (inflation-scaled) annual exempt amount; when the other income is at least
\* the basic-rate limit all gains above the exempt amount are taxed at the
\* higher rate (gains 10,000 with other income 60,000 in the UK: 1,400).
C20_CapitalGainsTax ==
  \A i \in CallsOf("calculateCapitalGainsTax") :
    /\ calls[i].args.capitalGains <= ExemptAmount(calls[i].args.inflationFactor)
         => calls[i].result = NoTax
    /\ ( /\ calls[i].args.capitalGains > ExemptAmount(calls[i].args.inflationFactor)
         /\ calls[i].args.otherIncome
              >= BasicRateLimit(calls[i].args.isScottish, calls[i].args.inflationFactor) )
         => calls[i].result
              = Percent(calls[i].args.capitalGains
                          - ExemptAmount(calls[i].args.inflationFactor), 20)
    /\ ( /\ calls[i].args.capitalGains = GBP(10000)
         /\ calls[i].args.otherIncome = GBP(60000)
         /\ ~calls[i].args.isScottish
         /\ calls[i].args.inflationFactor = One )
         => calls[i].result = [t |-> GBP(1400), h |-> 0]

\* gains above the inflated exempt amount on top of an income above the
\* inflated basic-rate limit
C20_Witness ==
  \E i \in CallsOf("calculateCapitalGainsTax") :
    /\ calls[i].args.inflationFactor # One
    /\ calls[i].args.capitalGains > ExemptAmount(calls[i].args.inflationFactor)
    /\ calls[i].args.otherIncome
         >= BasicRateLimit(calls[i].args.isScottish, calls[i].args.inflationFactor)
    /\ calls[i].result # NoTax

(***************************************************************************)
(* Properties of the accumulation phase                                    *)
(***************************************************************************)
AccumYears == 1..Len(accLocals)

AccountIds == 1..Len(accounts)

\* the person an account belongs to
Owner(i) ==
  IF household.mode = "couple" /\ accounts[i].owner = "person2"
  THEN household.person2
  ELSE household.person1

\* the owner's own age in an accumulation year: current age plus years elapsed
OwnAge(y, i) == Owner(i).currentAge + (y - 1)

Retired(y, i) == OwnAge(y, i) >= Owner(i).retirementAge

C12_NoLisaContributionFromFifty ==
  \A y \in AccumYears : \A i \in AccountIds :
    ( accounts[i].type = "lisa" /\ OwnAge(y, i) >= 50 ) =>
      /\ accLocals[y][i].added = 0
      /\ accLocals[y][i].after
           = accLocals[y][i].before
               + Times(accLocals[y][i].before, Rate(accounts[i].expectedReturn))

\* C13: in couple mode the accumulation horizon spans until the last person
\* retires: in the final accumulation year each person's own age (current
\* age plus years elapsed) has reached that person's own retirement age.
C13_HorizonUntilLastRetires ==
  ( pc # "accumulation" /\ household.mode = "couple" /\ Len(accLocals) > 0 ) =>
    \A p \in Persons :
      household[p].currentAge + (Len(accLocals) - 1) >= household[p].retirementAge

(***************************************************************************)
(* Properties of projections run one after another                         *)
(***************************************************************************)
\* the earlier projections that were given the inputs of this one
SameInputs ==
  { k \in 1..Len(history) :
      /\ history[k].accounts = accounts
      /\ history[k].household = household
      /\ history[k].assumptions = assumptions }

\* C15: calculateAccumulation and calculateWithdrawals are deterministic
\* functions of their arguments: two runs with identical (accounts,
\* household, assumptions) produce identical results in every field,
\* whatever the time at which a run happens.
C15_SameInputsSameResults ==
  pc = "done" =>
    \A k \in SameInputs :
      /\ history[k].accumulation = accumulation
      /\ history[k].retirement = retirement

\* an account without its identity and owner
Holding(a) == [a EXCEPT !.id = 0, !.owner = "undefined"]

\* a couple of identical profiles whose accounts are split 50/50
TwinCouple(run) ==
  /\ run.household.mode = "couple"
  /\ run.household.person1 = run.household.person2
  /\ LET a1 == PersonAccounts(run.accounts, "person1")
         a2 == PersonAccounts(run.accounts, "person2")
     IN  /\ Len(a1) = Len(a2)
         /\ \A i \in 1..Len(a1) : Holding(a1[i]) = Holding(a2[i])

\* C14: for a couple with identical profiles and balances split 50/50 the
\* couple run's total withdrawn and total tax paid equal the sums over two
\* independent single-mode runs, each with one person's accounts, half the
\* household state pension and half the target.
C14_CoupleEqualsTwoSingles ==
  ( /\ pc = "done"
    /\ Len(history) = 2
    /\ TwinCouple(history[1])
    /\ IsPersonRun(history[2], history[1], "person1")
    /\ IsPersonRun(Returned, history[1], "person2") ) =>
    /\ history[1].retirement.totalWithdrawn
         = history[2].retirement.totalWithdrawn + retirement.totalWithdrawn
    /\ history[1].retirement.totalTaxPaid
         = TaxAdd(history[2].retirement.totalTaxPaid, retirement.totalTaxPaid)

(***************************************************************************)
(* Properties of the retirement years                                      *)
(***************************************************************************)
\* the balances at the end of simulated year k, after the return
EndOfYear(k) == IF k < Len(locals) THEN locals[k + 1].before ELSE balances

\* the lump-sum allowances at the end of simulated year k
LumpSumAfter(k) == IF k < Len(locals) THEN locals[k + 1].lumpSumBefore ELSE lumpSumRemaining

\* the simulation gives person p an age below the private-pension access age
\* in year k
BelowAccessAge(k, p) == locals[k].ages[p] < household[p].privatePensionAge

\* what a person's withdrawal takes from the ISA, the LISA and the GIA
TaxFreeAndGia(w) == w.isaWithdrawal + w.lisaWithdrawal + w.taxableWithdrawal

\* C21: in every retirement year in which a person's age is below the
\* person's private-pension access age, the person's pension withdrawal and
\* tax-free lump sum are 0, the remaining lump-sum allowance is unchanged and
\* the pension balance is changed only by the investment return; what the
\* person funds comes only from ISA, LISA and GIA, and so does the whole
\* year's funding when no person of the household has access
C21_NoPensionBelowAccessAge ==
  \A k \in Years :
    /\ \A p \in Persons :
         BelowAccessAge(k, p) =>
           /\ ~locals[k].canAccessPension[p]
           /\ locals[k].withdrawal[p].pensionWithdrawal = 0
           /\ locals[k].withdrawal[p].taxFreeLumpSum = 0
           /\ LumpSumAfter(k)[p] = locals[k].lumpSumBefore[p]
           /\ locals[k].afterWithdrawal[p].pension = locals[k].before[p].pension
           /\ EndOfYear(k)[p].pension =
                Times(locals[k].before[p].pension, OnePlus(assumptions.retirementReturnRate))
           /\ PersonTotal(locals[k].withdrawal[p]) = TaxFreeAndGia(locals[k].withdrawal[p])
    /\ (\A p \in Persons : BelowAccessAge(k, p)) =>
         /\ retirement.years[k].pensionWithdrawal = 0
         /\ retirement.years[k].taxFreeLumpSum = 0
         /\ retirement.years[k].totalWithdrawal =
              retirement.years[k].isaWithdrawal + retirement.years[k].lisaWithdrawal
                + retirement.years[k].taxableWithdrawal

\* a person below the access age holds a pension with a lump-sum allowance,
\* the year is funded from the other sources and misses its target, and the
\* return changes the pension balance
C21_Witness ==
  \E k \in Years, p \in Persons :
    /\ BelowAccessAge(k, p)
    /\ locals[k].before[p].pension > 0
    /\ locals[k].lumpSumBefore[p] > 0
    /\ assumptions.retirementReturnRate # 0
    /\ 0 < locals[k].total
    /\ locals[k].total < locals[k].neededFromPortfolio
    /\ TaxFreeAndGia(locals[k].withdrawal[p]) > 0

\* the accounts without an owner field
Ownerless == { i \in 1..Len(accounts) : accounts[i].owner = "undefined" }

\* the balance of account i in the final accumulation year
FinalBalance(i) == Last(accumulation.years).accounts[i]

\* the final balances of the accounts of one tax treatment that satisfy held
HeldFinal(treatment, held(_)) ==
  SumTo([i \in 1..Len(accounts) |->
           IF held(i) /\ getTaxTreatment(accounts[i].type) = treatment
           THEN FinalBalance(i) ELSE 0],
        Len(accounts))

NotPerson2s(i) == accounts[i].owner # "person2"

\* calculateCoupleWithdrawals has split the balances and not yet withdrawn
WithdrawalsStart == pc = "couple" /\ yearIndex = 0

\* C22: in couple mode an account whose owner field is absent is person1's
\* everywhere: in every accumulation year it gets its return, and its
\* contribution exactly while person1's age is below person1's retirement
\* age, and at the start of the withdrawal phase its full final balance is in
\* person1's balances (person1 holds the final balances of all accounts that
\* do not name person2)
C22_OwnerlessIsPerson1s ==
  IsCouple(household) =>
    /\ \A y \in 1..Len(accLocals), i \in Ownerless :
         LET a == accLocals[y][i]
             person1Age == household.person1.currentAge + (y - 1)
         IN  /\ a.parts.ownerAge = person1Age
             /\ a.parts.working = (person1Age < household.person1.retirementAge)
             /\ a.returns = Times(a.before, Rate(accounts[i].expectedReturn))
             /\ a.added = (IF person1Age < household.person1.retirementAge
                           THEN a.parts.contribution + a.parts.employerContrib
                                  + a.parts.lisaBonus
                           ELSE 0)
             /\ a.after = a.before + a.returns + a.added
             /\ accumulation.years[y].accounts[i] = a.after
    /\ WithdrawalsStart =>
         \A c \in Categories :
           /\ balances.person1[c] = HeldFinal(c, NotPerson2s)
           /\ \A i \in Ownerless :
                getTaxTreatment(accounts[i].type) = c =>
                  balances.person1[c] >= FinalBalance(i)

\* a couple in which person2 still works when person1 has retired holds an
\* account without owner: it got no contribution in a year in which person2's
\* accounts would, and its final balance is what person1 holds of its kind
C22_Witness ==
  /\ IsCouple(household)
  /\ WithdrawalsStart
  /\ \E i \in Ownerless, y \in 1..Len(accLocals) :
       /\ ~accLocals[y][i].parts.working
       /\ household.person2.currentAge + (y - 1) < household.person2.retirementAge
       /\ accLocals[y][i].parts.contribution > 0
       /\ accLocals[y][i].returns > 0
       /\ FinalBalance(i) > 0
       /\ balances.person1[getTaxTreatment(accounts[i].type)] = FinalBalance(i)
       /\ balances.person2[getTaxTreatment(accounts[i].type)] = 0

\* the simulated years of single mode: the calls of performWithdrawal
SingleCalls == { k \in Years : locals[k].fn = "performWithdrawal" }

\* pensionWithdrawal - taxFreeLumpSum of a withdrawal
TaxablePension(w) == w.pensionWithdrawal - w.taxFreeLumpSum

\* max(0, ceiling - statePension) of person p in year k
BracketRoom(k, p) ==
  roomInLowerBrackets(locals[k].maxTaxBracketThreshold[p], locals[k].statePension[p])

\* C23: performWithdrawal respects the source priority: a LISA withdrawal is
\* nonzero only if the ISA balance is 0 afterwards; a GIA withdrawal is
\* nonzero only if the ISA and LISA balances are 0 afterwards; and the
\* taxable pension drawn (pensionWithdrawal - taxFreeLumpSum) exceeds the
\* bracket room max(0, ceiling - statePension) only if the ISA, LISA and GIA
\* balances are all 0 afterwards
C23_SourcePriority ==
  \A k \in SingleCalls :
    LET w    == locals[k].withdrawal.person1
        left == locals[k].afterWithdrawal.person1
    IN  /\ w.lisaWithdrawal # 0 => left.isa = 0
        /\ w.taxableWithdrawal # 0 => (left.isa = 0 /\ left.lisa = 0)
        /\ TaxablePension(w) > BracketRoom(k, "person1") =>
             (left.isa = 0 /\ left.lisa = 0 /\ left.taxable = 0)

\* a call that empties the ISA and the LISA, draws on the GIA and leaves
\* some of it; and a call that fills a bracket with room to spare for the
\* pension balance, then empties ISA and GIA and draws pension above the room
C23_Witness ==
  /\ \E k \in SingleCalls :
       /\ locals[k].withdrawal.person1.isaWithdrawal > 0
       /\ locals[k].withdrawal.person1.lisaWithdrawal > 0
       /\ locals[k].withdrawal.person1.taxableWithdrawal > 0
  /\ \E k \in SingleCalls :
       /\ BracketRoom(k, "person1") > 0
       /\ locals[k].withdrawal.person1.bracketFill = BracketRoom(k, "person1")
       /\ locals[k].withdrawal.person1.isaWithdrawal > 0
       /\ locals[k].withdrawal.person1.taxableWithdrawal > 0
       /\ locals[k].withdrawal.person1.overflow > 0
       /\ TaxablePension(locals[k].withdrawal.person1) > BracketRoom(k, "person1")

\* the simulated years of couple mode: the calls of performCoupleWithdrawal
CoupleCalls == { k \in Years : locals[k].fn = "performCoupleWithdrawal" }

\* person1 has no access to the pension in year k
Person1Locked(k) == ~locals[k].canAccessPension.person1

\* person1's balance of category c after step i of year k
Person1Left(k, i, c) == locals[k].steps[i].person1[c]

C25_ReturnAfterWithdrawal ==
  \A k \in 1..Len(retirement.years) :
    /\ retirement.years[k].endingBalance =
         Times(retirement.years[k].startingBalance - retirement.years[k].totalWithdrawal,
               OnePlus(assumptions.retirementReturnRate))
    /\ retirement.years[k].endingBalance = locals[k].endingBalance
    /\ k < Len(retirement.years) =>
         retirement.years[k + 1].startingBalance = retirement.years[k].endingBalance

\* with a return other than 0 money is withdrawn in a year that ends with
\* money left, and the next year withdraws again
C25_Witness ==
  \E k \in 1..Len(retirement.years) :
    /\ k < Len(retirement.years)
    /\ assumptions.retirementReturnRate # 0
    /\ retirement.years[k].totalWithdrawal > 0
    /\ retirement.years[k].endingBalance > 0
    /\ retirement.years[k].endingBalance # retirement.years[k].startingBalance
    /\ retirement.years[k + 1].totalWithdrawal > 0

\* 0 <= taxableCostBasis <= taxable
CostBasisInRange(b) == 0 <= b.taxableCostBasis /\ b.taxableCostBasis <= b.taxable

\* C26: throughout the withdrawal phase 0 <= taxableCostBasis <= taxable
\* balance holds after every withdrawal and every return step; the capital
\* gain realised on a GIA withdrawal w equals w x (1 - costBasis/balance),
\* lies in [0, w], and the cost basis shrinks by the same proportion as the
\* balance
C26_CostBasis ==
  \A p \in PersonId :
    /\ CostBasisInRange(balances[p])
    /\ \A k \in Years :
         LET held  == locals[k].steps[4][p]
             left  == locals[k].steps[5][p]
             w     == locals[k].withdrawal[p].taxableWithdrawal
             gains == locals[k].withdrawal[p].capitalGains
         IN  /\ CostBasisInRange(locals[k].before[p])
             /\ \A i \in 1..6 : CostBasisInRange(locals[k].steps[i][p])
             /\ CostBasisInRange(locals[k].afterWithdrawal[p])
             /\ CostBasisInRange(EndOfYear(k)[p])
             /\ 0 <= gains /\ gains <= w
             /\ w = 0 => (gains = 0 /\ left = held)
             /\ w > 0 =>
                  /\ Frac(gains, w) = Frac(held.taxable - held.taxableCostBasis, held.taxable)
                  /\ left.taxable = held.taxable - w
                  /\ IF held.taxableCostBasis > 0
                     THEN Frac(left.taxableCostBasis, held.taxableCostBasis)
                            = Frac(left.taxable, held.taxable)
                     ELSE left.taxableCostBasis = 0

\* part of a GIA is withdrawn with a gain, the rest gets a return other than
\* 0 together with its cost basis, and a later year withdraws all of it
C26_Witness ==
  \E k \in Years, p \in PersonId :
    /\ k > 1
    /\ assumptions.retirementReturnRate # 0
    /\ locals[k - 1].withdrawal[p].taxableWithdrawal > 0
    /\ locals[k - 1].withdrawal[p].capitalGains > 0
    /\ locals[k - 1].afterWithdrawal[p].taxable > 0
    /\ locals[k].before[p].taxableCostBasis
         # locals[k - 1].afterWithdrawal[p].taxableCostBasis
    /\ locals[k].withdrawal[p].taxableWithdrawal > 0
    /\ locals[k].afterWithdrawal[p].taxable = 0
    /\ locals[k].afterWithdrawal[p].taxableCostBasis = 0

(***************************************************************************)
(* Properties of the summary figures                                       *)
(***************************************************************************)
\* C27 as claimed: no division by zero occurs in the core or in the figures
\* derived from its results: the gain ratio is computed only when the taxable
\* balance is > 0, getEffectiveTaxRate returns 0 when income + gains <= 0
\* (and a finite rate otherwise), and the displayed effective tax rate and
\* average annual tax are finite when total withdrawn is 0 or the retirement
\* length is 0
C27_NoDivisionByZero ==
  /\ \A k \in Years, p \in PersonId :
       (locals[k].withdrawal[p].taxableWithdrawal # 0
          \/ locals[k].withdrawal[p].capitalGains # 0)
       => locals[k].steps[4][p].taxable > 0
  /\ \A k \in Years, p \in Persons :
       LET income == locals[k].taxableIncome[p]
           gains  == locals[k].withdrawal[p].capitalGains
           rate   == getEffectiveTaxRate(income, gains, household[p].isScottish)
       IN  /\ rate.kind = "finite"
           /\ income + gains <= 0 => rate = JsNumber(NoTax)
  /\ \A c \in CallsOf("SummaryCards") :
       /\ calls[c].result.effectiveTaxRate.kind = "finite"
       /\ calls[c].result.averageAnnualTax.kind = "finite"

(***************************************************************************)
(* Properties of the yearly records                                        *)
(***************************************************************************)
\* the income tax of person p on the state pension and the pension withdrawal
\* less the lump sum of year k
TaxOnPensions(k, p) ==
  calculateIncomeTax(locals[k].statePension[p]
                       + locals[k].withdrawal[p].pensionWithdrawal
                       - locals[k].withdrawal[p].taxFreeLumpSum,
                     household[p].isScottish, locals[k].taxBandInflationFactor).tax

\* C28: in every simulated year the tax-free lump sum is at most the year's
\* pension withdrawal and the recorded taxable income equals statePension +
\* pensionWithdrawal - taxFreeLumpSum, never negative; the ISA, LISA and GIA
\* withdrawals and the lump sum never enter the income on which income tax
\* is computed (per person, the state pension plus the pension withdrawal
\* less the lump sum)
C28_TaxableIncome ==
  \A k \in 1..Len(retirement.years) :
    LET y == retirement.years[k]
    IN  /\ 0 <= y.taxFreeLumpSum
        /\ y.taxFreeLumpSum <= y.pensionWithdrawal
        /\ y.taxableIncome = y.statePension + y.pensionWithdrawal - y.taxFreeLumpSum
        /\ y.taxableIncome >= 0
        /\ \A p \in PersonId :
             /\ locals[k].withdrawal[p].taxFreeLumpSum
                  <= locals[k].withdrawal[p].pensionWithdrawal
             /\ locals[k].taxableIncome[p] >= 0
        /\ y.incomeTax =
             (IF IsCouple(household)
              THEN TaxAdd(TaxOnPensions(k, "person1"), TaxOnPensions(k, "person2"))
              ELSE TaxOnPensions(k, "person1"))

\* a year with a state pension, a lump sum, taxable pension on top of it and
\* ISA and GIA withdrawals with a gain, on which income tax is paid
C28_Witness ==
  \E k \in 1..Len(retirement.years) :
    /\ retirement.years[k].statePension > 0
    /\ retirement.years[k].taxFreeLumpSum > 0
    /\ retirement.years[k].pensionWithdrawal > retirement.years[k].taxFreeLumpSum
    /\ retirement.years[k].isaWithdrawal > 0
    /\ retirement.years[k].taxableWithdrawal > 0
    /\ \E p \in PersonId : locals[k].withdrawal[p].capitalGains > 0
    /\ retirement.years[k].incomeTax # NoTax

\* C29 as claimed: in couple mode, in every simulated retirement year the age
\* attributed to each person (used for pension access, state-pension
\* eligibility and the from-today inflation exponent) equals the person's
\* current age plus the number of years from today to the record's calendar
\* year: personAge - currentAge = year - year of the first accumulation
\* record
C29_PersonAgeFollowsCalendar ==
  IsCouple(household) =>
    \A k \in Years, p \in PersonId :
      locals[k].ages[p] - household[p].currentAge
        = retirement.years[k].year - accumulation.years[1].year

Person2s(i) == accounts[i].owner = "person2"

\* the total of one category in an AccumulationYear record
CategoryTotal(rec, c) ==
  CASE c = "pension" -> rec.pensionBalance
    [] c = "isa"     -> rec.isaBalance
    [] c = "lisa"    -> rec.lisaBalance
    [] c = "taxable" -> rec.taxableBalance

\* C30: at the start of the couple-mode withdrawal phase every account is
\* assigned to exactly one person, so for each category (pension, ISA, LISA,
\* taxable) person1's plus person2's starting balance equals the category's
\* total in the final accumulation year, and each person's initial cost
\* basis is half of the person's taxable balance
C30_SplitKeepsTotals ==
  (IsCouple(household) /\ WithdrawalsStart) =>
    /\ \A c \in Categories :
         /\ balances.person1[c] = HeldFinal(c, NotPerson2s)
         /\ balances.person2[c] = HeldFinal(c, Person2s)
         /\ balances.person1[c] + balances.person2[c]
              = CategoryTotal(Last(accumulation.years), c)
    /\ Total(balances.person1) + Total(balances.person2)
         = Last(accumulation.years).totalBalance
    /\ \A p \in PersonId : 2 * balances[p].taxableCostBasis = balances[p].taxable

\* after two accumulation years both persons hold a pension and a LISA is
\* held by person1, an ISA and a taxable account with its cost basis by
\* person2
C30_Witness ==
  /\ IsCouple(household)
  /\ WithdrawalsStart
  /\ Len(accumulation.years) >= 2
  /\ balances.person1.pension > 0
  /\ balances.person2.pension > 0
  /\ balances.person1.pension + balances.person2.pension
       = Last(accumulation.years).pensionBalance
  /\ balances.person1.lisa > 0
  /\ balances.person2.isa > 0
  /\ balances.person2.taxable > 0
  /\ balances.person2.taxableCostBasis > 0

====
